---- MODULE Spec2Model ----
(***************************************************************************)
(* State-machine model of the W.E.T account backend: the auth routes       *)
(* (routes/auth.js), the Firebase helpers (config/firebase.js) and the     *)
(* rate-limiting middleware (middleware/auth, kept in js/firebase-config). *)
(*                                                                         *)
(* Two stores appear in the source.  Register writes to Firebase Auth and   *)
(* Firestore through userHelpers / firestoreHelpers.  Login, verify-email,  *)
(* resend-verification, forgot-password and reset-password read and write   *)
(* the document collection behind the User model (models/User.js), which   *)
(* is part of the repository but not of the sources at hand; its finders    *)
(* and lockout helpers are modelled from the specification.                 *)
(***************************************************************************)
EXTENDS Integers, Sequences, FiniteSets, TLC

(* ------------------------------ bounds -------------------------------- *)
MaxTokens == 1
MaxReq == 3
MaxLoginReq == 7
MaxTicks == 1

(* ------------------------- program constants -------------------------- *)
WindowMs == 900000
VerifyTTL == 86400000
ResetTTL == 3600000
RegisterMax == 5
LoginMax == 5
ResendMax == 3
ForgotMax == 3
ResetMax == 5
MinPasswordLength == 8
MaxLoginAttempts == 5
ChangePasswordMax == 3
DeleteAccountMax == 2
DeleteAccountWindowMs == 3600000

(* ------------------------------ domains ------------------------------- *)
LowerEmails == {"a@x", "b@x"}
EmailInputs == {"", "A@x", "b@x"}
Passwords == {"", "seven77", "Passw0rd!", "N3wPassw0rd"}
IPs == {"ip1", "ip2"}
Slots == {1, 2}
Endpoints == {"register", "login", "resend", "forgot", "reset",
              "change-password", "account"}
Durations == {WindowMs, VerifyTTL}
NoToken == 0
Tokens == 1..MaxTokens

toLowerCase(e) == IF e = "A@x" THEN "a@x" ELSE e

VARIABLES
  now,                \* Date.now()
  users,              \* the User collection (models/User.js)
  authUsers,          \* Firebase Auth identities, uid identified with email
  userProfiles,       \* Firestore collection userProfiles, keyed by uid
  emailVerification,  \* Firestore collection emailVerification, keyed by uid
  nextToken,          \* number of tokens emailService.generateToken has drawn
  hits,               \* express-rate-limit store of each limiter instance
  reqs,               \* handlers suspended at an await
  last,               \* the response most recently sent
  nreq,               \* requests received so far
  ticks,              \* clock advances so far
  verifiedTokens,     \* history: tokens a verify-email call succeeded with
  resetUses,          \* history: successful reset-password calls per token
  failStreak,         \* history: consecutive 401 wrong-password logins
  shortRejected,      \* history: valid reset tokens sent with a short password
  req,                \* the request to a protected route and its progress
  api,                \* the browser's WETApi instance and its call in flight
  fb                  \* the browser's FirebaseWETApi instance

vars == <<now, users, authUsers, userProfiles, emailVerification, nextToken,
          hits, reqs, last, nreq, ticks, verifiedTokens, resetUses,
          failStreak, shortRejected, req, api, fb>>

(* ------------------------------ records ------------------------------- *)
NoUser ==
  [exists |-> FALSE, password |-> "", isEmailVerified |-> FALSE,
   emailVerificationToken |-> NoToken, emailVerificationExpires |-> 0,
   passwordResetToken |-> NoToken, passwordResetExpires |-> 0,
   loginAttempts |-> 0, role |-> "user", firstName |-> ""]

LegacyUser ==
  [NoUser EXCEPT !.exists = TRUE, !.password = "Passw0rd!",
                 !.firstName = "Alice"]

NoDoc == [exists |-> FALSE, token |-> NoToken, expiresAt |-> 0]

NoProfile == [exists |-> FALSE, role |-> "", emailVerified |-> FALSE]

IdleReq == [pc |-> "idle", user |-> "", token |-> NoToken, password |-> ""]

\* res.status(...).json({success, message, ...}); the remaining fields
\* record the request the response answers and what its collaborators did.
Response(op, status, success, message) ==
  [op |-> op, status |-> status, success |-> success, message |-> message,
   email |-> "", token |-> NoToken, password |-> "",
   isEmailVerified |-> "n/a", stage |-> "n/a", mailOk |-> TRUE,
   input |-> ""]

Visible(resp) ==
  [status |-> resp.status, success |-> resp.success,
   message |-> resp.message]

NoResponse == Response("none", 0, FALSE, "")

\* A JavaScript value that is a string or an array of strings; items is
\* what (Array.isArray(v) ? v : [v]) yields.
Str(x) == [array |-> FALSE, items |-> <<x>>]

Arr(xs) == [array |-> TRUE, items |-> xs]

Undefined == Str("undefined")

\* subscription.endDate = null
NullDate == -1

NoSubscription == [present |-> FALSE, type |-> "", endDate |-> NullDate]

\* req.user before a middleware attached one, or set to null.
NullUser ==
  [isNull |-> TRUE, uid |-> "", id |-> "", emailVerified |-> FALSE,
   role |-> Undefined, subscription |-> NoSubscription]

\* res before anything was sent.
NoRes == [status |-> 0, success |-> FALSE, message |-> "", code |-> ""]

\* res.status(status).json({success: false, message, code})
Reject(status, message, code) ==
  [status |-> status, success |-> FALSE, message |-> message, code |-> code]

\* req.body and req.params of a request to a protected route, as far as
\* the handlers read them; "undefined" is a key the request does not have
\* and "" a value that is falsy.
NoBody ==
  [firstName |-> "undefined", role |-> "undefined", password |-> "",
   newPassword |-> "", confirmation |-> "", userId |-> ""]

\* The protected request: the route, the middleware about to run (stage),
\* what the middlewares attached to it, the response sent, the calls of
\* next() made by the middleware that ran last, and, as history, the uid
\* the identity provider decoded from its token or the code of the error
\* the provider threw, whether a limiter counted it, whether the route's
\* handler ran, whether verify-email had succeeded for the token's
\* account when the request arrived, and the body the handler read.
IdleRequest ==
  [route |-> "", stage |-> "idle", ip |-> "", authorization |-> <<>>,
   roles |-> Arr(<<>>), user |-> NullUser, uid |-> "", res |-> NoRes,
   nexts |-> 0, decoded |-> "", code |-> "", counted |-> FALSE,
   handled |-> FALSE, wasVerified |-> FALSE, body |-> NoBody]

(* --------------------- sensitiveOperationLimiter ---------------------- *)
MaxOf(ep) ==
  CASE ep = "register" -> RegisterMax
    [] ep = "login" -> LoginMax
    [] ep = "resend" -> ResendMax
    [] ep = "forgot" -> ForgotMax
    [] ep = "reset" -> ResetMax
    [] ep = "change-password" -> ChangePasswordMax
    [] ep = "account" -> DeleteAccountMax

WindowOf(ep) == IF ep = "account" THEN DeleteAccountWindowMs ELSE WindowMs

\* Variant: the key is the client address alone.
keyGenerator_IpOnly(ip, uid) == <<ip, "">>

\* keyGenerator: req.ip + (req.uid || req.user?.uid || ''); no auth
\* middleware runs before the limiter on the auth routes, so uid is ''
\* there.
keyGenerator(ip, uid) == <<ip, uid>>

\* The store's increment: a key whose window has elapsed starts afresh.
Increment(h, windowMs) ==
  IF h.count = 0 \/ now >= h.resetTime
    THEN [count |-> 1, resetTime |-> now + windowMs]
    ELSE [h EXCEPT !.count = h.count + 1]

\* Variant: a request that is about to be rejected is not counted.
HitsAfter_NotWhenLimited(ep, key) ==
  IF /\ hits[ep][key].count >= MaxOf(ep)
     /\ now < hits[ep][key].resetTime
    THEN hits
    ELSE [hits EXCEPT ![ep][key] = Increment(hits[ep][key], WindowOf(ep))]

HitsAfter(ep, key) ==
  [hits EXCEPT ![ep][key] = Increment(hits[ep][key], WindowOf(ep))]

\* Variant: rejects as soon as the incremented count reaches max.
Limited_AtMax(ep, key) == HitsAfter(ep, key)[ep][key].count >= MaxOf(ep)

\* express-rate-limit rejects when the incremented count exceeds max.
Limited(ep, key) == HitsAfter(ep, key)[ep][key].count > MaxOf(ep)

TooManyAttempts(op) ==
  Response(op, 429, FALSE, "Too many attempts, please try again later")

(* ------------------------------- WETApi ------------------------------- *)
\* new WETApi(): token and refreshToken are read from localStorage ("" is
\* the null of an absent item) and wet_user is the item setUser stores;
\* the remaining fields describe the makeRequest call in flight (sends and
\* refreshes count its requests) and how the last call ended.
NewWETApi(token, refreshToken) ==
  [token |-> token, refreshToken |-> refreshToken, pc |-> "idle",
   endpoint |-> "", expired |-> FALSE, held |-> "", path |-> "",
   net |-> TRUE, retried |-> FALSE, sent |-> <<>>, returned |-> "none",
   data |-> NoRes, location |-> "page", sends |-> 0, refreshes |-> 0,
   wet_user |-> ""]

(* --------------------------- FirebaseWETApi --------------------------- *)
\* new FirebaseWETApi(): currentUser and authToken are null (""); wet_token
\* is the localStorage item the auth-state callback writes, pending counts
\* the getIdToken() promises of each user that have not settled, and
\* changes counts the auth-state callbacks run.
NewFirebaseWETApi ==
  [currentUser |-> "", authToken |-> "", wet_token |-> "",
   pending |-> [u \in LowerEmails |-> 0], changes |-> 0]

(* ----------------------- User model (finders) ------------------------- *)
UserfindOne(email) == users[email]

UserfindByEmail(email) == users[email]

\* User.findById(id): the document whose _id is id, null when there is none
\* (findById(undefined) queries for _id null).  Documents are identified
\* with their email.
UserfindById(id) == IF id \in LowerEmails THEN users[id] ELSE NoUser

\* Variant: the expiry is not looked at.
FoundByVerificationToken_AnyAge(token) ==
  {e \in LowerEmails : /\ users[e].exists
                       /\ users[e].emailVerificationToken = token}

FoundByVerificationToken(token) ==
  {e \in LowerEmails : /\ users[e].exists
                       /\ users[e].emailVerificationToken = token
                       /\ users[e].emailVerificationExpires > now}

FoundByResetToken(token) ==
  {e \in LowerEmails : /\ users[e].exists
                       /\ users[e].passwordResetToken = token
                       /\ users[e].passwordResetExpires > now}

isLocked(u) == u.loginAttempts >= MaxLoginAttempts

comparePassword(u, password) == u.password = password

incLoginAttempts(u) == [u EXCEPT !.loginAttempts = u.loginAttempts + 1]

(* ------------------------------- Init --------------------------------- *)
Init ==
  /\ now = 0
  /\ api = NewWETApi("", "")
  /\ fb = NewFirebaseWETApi
  /\ users = [e \in LowerEmails |-> IF e = "a@x" THEN LegacyUser ELSE NoUser]
  /\ authUsers = {}
  /\ userProfiles = [e \in LowerEmails |-> NoProfile]
  /\ emailVerification = [e \in LowerEmails |-> NoDoc]
  /\ nextToken = 0
  /\ hits = [ep \in Endpoints |->
              [k \in {keyGenerator(ip, uid) :
                         ip \in IPs, uid \in {""} \cup LowerEmails} |->
                [count |-> 0, resetTime |-> 0]]]
  /\ reqs = [r \in Slots |-> IdleReq]
  /\ last = NoResponse
  /\ nreq = 0
  /\ ticks = 0
  /\ verifiedTokens = {}
  /\ resetUses = [t \in Tokens |-> 0]
  /\ failStreak = [e \in LowerEmails |-> 0]
  /\ shortRejected = {}
  /\ req = IdleRequest

(* ------------------------------ the clock ----------------------------- *)
Tick(d) ==
  /\ ticks < MaxTicks
  /\ now' = now + d
  /\ ticks' = ticks + 1
  /\ UNCHANGED <<req, users, authUsers, userProfiles, emailVerification,
                 nextToken, hits, reqs, last, nreq, verifiedTokens,
                 resetUses, failStreak, shortRejected, api, fb>>

(* ------------------------- POST /forgot-password ---------------------- *)
GenericResetSent ==
  Response("forgot", 200, TRUE,
    "If an account with that email exists, a password reset link has been sent")

\* The response of the handler once the limiter and the validation have
\* passed and the lookup has returned u; mailOk is the mail transport's
\* outcome (consulted only when a reset email is sent).
forgotPasswordResponse(u, mailOk) ==
  IF ~u.exists THEN GenericResetSent
  ELSE IF ~mailOk
    THEN Response("forgot", 500, FALSE, "Failed to send password reset email")
    ELSE GenericResetSent

ForgotPassword(ip, email, storeOk, mailOk) ==
  LET key == keyGenerator(ip, "")
      e == toLowerCase(email)
  IN
  /\ nreq' = nreq + 1
  /\ hits' = HitsAfter("forgot", key)
  /\ IF Limited("forgot", key) THEN
       /\ last' = [TooManyAttempts("forgot") EXCEPT !.stage = "limited"]
       /\ UNCHANGED <<users, nextToken>>
     ELSE IF email = "" THEN
       /\ last' = [Response("forgot", 400, FALSE, "Email is required")
                     EXCEPT !.stage = "validation"]
       /\ UNCHANGED <<users, nextToken>>
     ELSE IF ~storeOk THEN
       /\ last' = [Response("forgot", 500, FALSE, "Password reset request failed")
                     EXCEPT !.email = e, !.stage = "storeError"]
       /\ UNCHANGED <<users, nextToken>>
     ELSE IF ~UserfindOne(e).exists THEN
       /\ last' = [forgotPasswordResponse(UserfindOne(e), mailOk)
                     EXCEPT !.email = e, !.stage = "handled",
                            !.mailOk = mailOk]
       /\ UNCHANGED <<users, nextToken>>
     ELSE
       /\ nextToken < MaxTokens
       /\ nextToken' = nextToken + 1
       /\ users' = [users EXCEPT ![e].passwordResetToken = nextToken + 1,
                                 ![e].passwordResetExpires = now + ResetTTL]
       /\ last' = [forgotPasswordResponse(UserfindOne(e), mailOk)
                     EXCEPT !.email = e, !.stage = "handled",
                            !.token = nextToken + 1, !.mailOk = mailOk]
  /\ UNCHANGED <<req, now, authUsers, userProfiles, emailVerification, reqs,
                 ticks, verifiedTokens, resetUses, failStreak, shortRejected, api, fb>>

(* ----------------------------- POST /login ---------------------------- *)
InvalidCredentials ==
  Response("login", 401, FALSE, "Invalid email or password")

\* Variant: the lock check is left out.
loginResponse_NoLockCheck(u, password) ==
  IF ~u.exists THEN InvalidCredentials
  ELSE IF ~comparePassword(u, password) THEN InvalidCredentials
  ELSE Response("login", 200, TRUE, "Login successful")

\* Variant: an unknown email is answered like resend-verification does.
loginResponse_UserNotFound(u, password) ==
  IF ~u.exists THEN Response("login", 404, FALSE, "User not found")
  ELSE IF isLocked(u)
    THEN Response("login", 423, FALSE,
           "Account temporarily locked due to too many failed login attempts")
  ELSE IF ~comparePassword(u, password) THEN InvalidCredentials
  ELSE Response("login", 200, TRUE, "Login successful")

\* The response of the handler once the limiter and the validation have
\* passed and the lookup has returned u.
loginResponse(u, password) ==
  IF ~u.exists THEN InvalidCredentials
  ELSE IF isLocked(u)
    THEN Response("login", 423, FALSE,
           "Account temporarily locked due to too many failed login attempts")
  ELSE IF ~comparePassword(u, password) THEN InvalidCredentials
  ELSE Response("login", 200, TRUE, "Login successful")

Login(ip, email, password, storeOk) ==
  LET key == keyGenerator(ip, "")
      e == toLowerCase(email)
      resp == loginResponse(UserfindByEmail(e), password)
  IN
  /\ nreq' = nreq + 1
  /\ hits' = HitsAfter("login", key)
  /\ IF Limited("login", key) THEN
       /\ last' = [TooManyAttempts("login") EXCEPT !.email = e,
                     !.password = password, !.stage = "limited"]
       /\ UNCHANGED <<users, failStreak>>
     ELSE IF email = "" \/ password = "" THEN
       /\ last' = [Response("login", 400, FALSE, "Email and password are required")
                     EXCEPT !.stage = "validation"]
       /\ UNCHANGED <<users, failStreak>>
     ELSE IF ~storeOk THEN
       /\ last' = [Response("login", 500, FALSE, "Login failed. Please try again.")
                     EXCEPT !.email = e, !.stage = "storeError"]
       /\ UNCHANGED <<users, failStreak>>
     ELSE
       /\ last' = [resp EXCEPT !.email = e, !.password = password,
                               !.stage = "handled"]
       /\ IF resp.status = 401 /\ users[e].exists THEN
            \* wrong password: user.incLoginAttempts()
            /\ users' = [users EXCEPT ![e] = incLoginAttempts(users[e])]
            /\ failStreak' = [failStreak EXCEPT ![e] = failStreak[e] + 1]
          ELSE IF resp.status = 200 THEN
            \* $unset loginAttempts / lockUntil, then save lastLogin
            /\ users' = [users EXCEPT ![e].loginAttempts = 0]
            /\ failStreak' = [failStreak EXCEPT ![e] = 0]
          ELSE UNCHANGED <<users, failStreak>>
  /\ UNCHANGED <<req, now, authUsers, userProfiles, emailVerification, nextToken,
                 reqs, ticks, verifiedTokens, resetUses, shortRejected, api, fb>>

(* --------------------------- POST /register --------------------------- *)
\* userHelpers.createUser returns { uid, email, ...userData }, userData
\* being { firstName, lastName, language, preferences }.
createUserReturn(uid, firstName, lastName) ==
  [uid |-> uid, email |-> uid, firstName |-> firstName,
   lastName |-> lastName, language |-> "en", preferences |-> "dark"]

\* Variant: no Profile document is written.
createUserProfile_NotWritten == NoProfile

\* Variant: the Profile document is written as already verified.
createUserProfile_Verified ==
  [exists |-> TRUE, role |-> "user", emailVerified |-> TRUE]

\* The Profile document createUser writes to userProfiles.
createUserProfile ==
  [exists |-> TRUE, role |-> "user", emailVerified |-> FALSE]

\* Reading a property an object does not have yields undefined.
Get(obj, field) == IF field \in DOMAIN obj THEN obj[field] ELSE "undefined"

\* Bindings in scope where the handler builds its 201 body: the
\* module's imports and the handler's own declarations.
RegisterScope ==
  {"express", "auth", "userHelpers", "firestoreHelpers", "COLLECTIONS",
   "emailService", "sensitiveOperationLimiter", "authenticateToken",
   "generateCustomToken", "router", "req", "res", "email", "password",
   "firstName", "lastName", "language", "existingUser", "userData", "user",
   "verificationToken"}

\* Identifiers the 201 body evaluates.
RegisterBodyIdentifiers == {"user", "token", "refreshToken"}

RegistrationFailed ==
  Response("register", 500, FALSE, "Registration failed. Please try again.")

\* res.status(201).json({...}): evaluating the body throws a ReferenceError
\* on an unbound identifier, which the handler's catch turns into the 500.
registerResponse(user) ==
  IF RegisterBodyIdentifiers \subseteq RegisterScope
    THEN [Response("register", 201, TRUE,
            "Registration successful. Please check your email to verify your account.")
            EXCEPT !.isEmailVerified = Get(user, "isEmailVerified")]
    ELSE RegistrationFailed

\* Variant: the email is looked up as it was sent.
existingUser_AsSent(email) == email \in authUsers

\* existingUser = await userHelpers.getUserByEmail(email.toLowerCase()),
\* which is null only when the identity provider knows no such email.
existingUser(email) == toLowerCase(email) \in authUsers

\* Variant: a failed send is reported the way forgot-password reports it.
afterVerificationEmail_Reported(resp, mailOk) ==
  IF mailOk THEN resp
  ELSE Response("register", 500, FALSE, "Failed to send verification email")

\* try { await emailService.sendVerificationEmail(...) } catch (emailError)
\* { console.error(...) }: a failed send is logged and the handler goes on
\* to the response it was about to send.
afterVerificationEmail(resp, mailOk) == resp

RegisterFailures == {"none", "getUserByEmail", "auth.createUser",
                     "createProfile", "createToken"}

Register(ip, body, fail, mailOk) ==
  LET key == keyGenerator(ip, "")
      email == body.email
      password == body.password
      firstName == body.firstName
      lastName == body.lastName
      e == toLowerCase(email)
      user == createUserReturn(e, firstName, lastName)
      tag(resp, stage) == [resp EXCEPT !.email = e, !.stage = stage,
                                       !.input = email]
  IN
  /\ nreq' = nreq + 1
  /\ hits' = HitsAfter("register", key)
  /\ IF Limited("register", key) THEN
       /\ last' = tag(TooManyAttempts("register"), "limited")
       /\ UNCHANGED <<authUsers, userProfiles, emailVerification, nextToken>>
     ELSE IF email = "" \/ password = "" \/ firstName = "" \/ lastName = "" THEN
       /\ last' = tag(Response("register", 400, FALSE, "All fields are required"),
                      "validation")
       /\ UNCHANGED <<authUsers, userProfiles, emailVerification, nextToken>>
     ELSE IF fail = "getUserByEmail" THEN
       /\ last' = tag(RegistrationFailed, "storeError")
       /\ UNCHANGED <<authUsers, userProfiles, emailVerification, nextToken>>
     ELSE IF existingUser(email) THEN
       /\ last' = tag(Response("register", 409, FALSE,
                               "User with this email already exists"), "conflict")
       /\ UNCHANGED <<authUsers, userProfiles, emailVerification, nextToken>>
     ELSE IF fail = "auth.createUser" THEN
       /\ last' = tag(RegistrationFailed, "storeError")
       /\ UNCHANGED <<authUsers, userProfiles, emailVerification, nextToken>>
     ELSE IF fail = "createProfile" THEN
       /\ authUsers' = authUsers \cup {e}
       /\ last' = tag(RegistrationFailed, "storeError")
       /\ UNCHANGED <<userProfiles, emailVerification, nextToken>>
     ELSE
       /\ nextToken < MaxTokens
       /\ nextToken' = nextToken + 1
       /\ authUsers' = authUsers \cup {e}
       /\ userProfiles' = [userProfiles EXCEPT ![e] = createUserProfile]
       /\ IF fail = "createToken" THEN
            /\ last' = tag(RegistrationFailed, "storeError")
            /\ UNCHANGED emailVerification
          ELSE
            /\ emailVerification' = [emailVerification EXCEPT ![e] =
                 [exists |-> TRUE, token |-> nextToken + 1,
                  expiresAt |-> now + VerifyTTL]]
            /\ last' = [tag(afterVerificationEmail(registerResponse(user),
                                                    mailOk), "responded")
                          EXCEPT !.token = nextToken + 1, !.mailOk = mailOk]
  /\ UNCHANGED <<req, now, users, reqs, ticks, verifiedTokens, resetUses,
                 failStreak, shortRejected, api, fb>>

\* register for a request that passes the limiter, the validation and the
\* conflict check and whose userHelpers.createUser call never returns: the
\* handler stays suspended at the await (slot r), since neither the handler
\* nor the helper arms a timer and a promise that never settles resumes
\* nothing.
RegisterPending(r, ip, body) ==
  LET key == keyGenerator(ip, "") IN
  /\ reqs[r].pc = "idle"
  /\ ~Limited("register", key)
  /\ body.email # "" /\ body.password # ""
  /\ body.firstName # "" /\ body.lastName # ""
  /\ ~existingUser(body.email)
  /\ nreq' = nreq + 1
  /\ hits' = HitsAfter("register", key)
  /\ reqs' = [reqs EXCEPT ![r] = [IdleReq EXCEPT !.pc = "register",
                                    !.user = toLowerCase(body.email)]]
  /\ UNCHANGED <<req, now, users, authUsers, userProfiles, emailVerification,
                 nextToken, last, ticks, verifiedTokens, resetUses,
                 failStreak, shortRejected, api, fb>>

(* -------------------------- account deletion -------------------------- *)
\* userHelpers.deleteUser(uid): auth.deleteUser, then the Profile
\* document's deleteDocument; either call can throw, and what was deleted
\* before stays deleted.  auth.deleteUser throws for an unknown uid.
DeleteUser(uid, fail) ==
  LET tag(success, stage) ==
        [Response("deleteUser", 0, success, "") EXCEPT !.email = uid,
                                                       !.stage = stage]
  IN
  /\ nreq' = nreq + 1
  /\ IF fail = "auth.deleteUser" \/ uid \notin authUsers THEN
       /\ last' = tag(FALSE, "storeError")
       /\ UNCHANGED <<authUsers, userProfiles>>
     ELSE
       /\ authUsers' = authUsers \ {uid}
       /\ IF fail = "deleteDocument" THEN
            /\ last' = tag(FALSE, "storeError")
            /\ UNCHANGED userProfiles
          ELSE
            /\ userProfiles' = [userProfiles EXCEPT ![uid] = NoProfile]
            /\ last' = tag(TRUE, "handled")
  /\ UNCHANGED <<req, now, users, emailVerification, nextToken, hits, reqs,
                 ticks, verifiedTokens, resetUses, failStreak, shortRejected, api, fb>>

\* FirebaseWETApi.deleteAccount() of the signed-in user uid: deleteDoc of
\* the Profile document, then deleteUser of the identity; an error is
\* caught and reported, and what was deleted before stays deleted.
ClientDeleteAccount(uid, fail) ==
  LET tag(success, message, stage) ==
        [Response("deleteAccount", 0, success, message)
           EXCEPT !.email = uid, !.stage = stage]
  IN
  /\ uid \in authUsers
  /\ nreq' = nreq + 1
  /\ IF fail = "deleteDoc" THEN
       /\ last' = tag(FALSE, "An error occurred", "storeError")
       /\ UNCHANGED <<authUsers, userProfiles>>
     ELSE
       /\ userProfiles' = [userProfiles EXCEPT ![uid] = NoProfile]
       /\ IF fail = "deleteUser" THEN
            /\ last' = tag(FALSE, "An error occurred", "storeError")
            /\ UNCHANGED authUsers
          ELSE
            /\ authUsers' = authUsers \ {uid}
            /\ last' = tag(TRUE, "Account deleted successfully", "handled")
  /\ UNCHANGED <<req, now, users, emailVerification, nextToken, hits, reqs,
                 ticks, verifiedTokens, resetUses, failStreak, shortRejected, api, fb>>

\* FirebaseWETApi.updateProfile(profileData) of the signed-in user uid:
\* updateDoc merges every key of profileData into the Profile document (of
\* the keys the model carries, role); updateDoc throws when the document
\* does not exist, and an error is caught and reported.
ClientUpdateProfile(uid, profileData, storeOk) ==
  LET tag(success, message, stage) ==
        [Response("updateProfile", 0, success, message)
           EXCEPT !.email = uid, !.stage = stage]
  IN
  /\ uid \in authUsers
  /\ nreq' = nreq + 1
  /\ IF ~storeOk \/ ~userProfiles[uid].exists THEN
       /\ last' = tag(FALSE, "An error occurred", "storeError")
       /\ UNCHANGED userProfiles
     ELSE
       /\ userProfiles' =
            [userProfiles EXCEPT ![uid] =
               [f \in DOMAIN userProfiles[uid] |->
                  IF f \in DOMAIN profileData THEN profileData[f]
                                              ELSE userProfiles[uid][f]]]
       /\ last' = tag(TRUE, "Profile updated successfully", "handled")
  /\ UNCHANGED <<req, now, users, authUsers, emailVerification, nextToken,
                 hits, reqs, ticks, verifiedTokens, resetUses, failStreak,
                 shortRejected, api, fb>>

(* ------------------------- POST /verify-email ------------------------- *)
InvalidVerificationToken ==
  Response("verify", 400, FALSE, "Invalid or expired verification token")

\* Variant: the token fields are not cleared.
verifyEmailUpdate_KeepToken(u) == [u EXCEPT !.isEmailVerified = TRUE]

\* After the lookup resolved: what the handler assigns before user.save().
verifyEmailUpdate(u) ==
  [u EXCEPT !.isEmailVerified = TRUE,
            !.emailVerificationToken = NoToken,
            !.emailVerificationExpires = 0]

\* From the request's arrival to the result of User.findByVerificationToken.
VerifyEmailFind(r, token, storeOk) ==
  /\ reqs[r].pc = "idle"
  /\ nreq' = nreq + 1
  /\ IF token = NoToken THEN
       /\ last' = [Response("verify", 400, FALSE, "Verification token is required")
                     EXCEPT !.stage = "validation"]
       /\ UNCHANGED reqs
     ELSE IF ~storeOk THEN
       /\ last' = [Response("verify", 500, FALSE,
                            "Email verification failed. Please try again.")
                     EXCEPT !.token = token, !.stage = "storeError"]
       /\ UNCHANGED reqs
     ELSE IF FoundByVerificationToken(token) = {} THEN
       /\ last' = [InvalidVerificationToken
                     EXCEPT !.token = token, !.stage = "handled"]
       /\ UNCHANGED reqs
     ELSE
       /\ \E e \in FoundByVerificationToken(token) :
            reqs' = [reqs EXCEPT ![r] =
                       [IdleReq EXCEPT !.pc = "verify", !.user = e,
                                       !.token = token]]
       /\ UNCHANGED last
  /\ UNCHANGED <<req, now, users, authUsers, userProfiles, emailVerification,
                 nextToken, hits, ticks, verifiedTokens, resetUses,
                 failStreak, shortRejected, api, fb>>

\* user.save(), the welcome email (a failure is swallowed) and the response.
VerifyEmailSave(r, mailOk) ==
  LET e == reqs[r].user IN
  /\ reqs[r].pc = "verify"
  /\ users' = [users EXCEPT ![e] = verifyEmailUpdate(users[e])]
  /\ verifiedTokens' = verifiedTokens \cup {reqs[r].token}
  /\ last' = [Response("verify", 200, TRUE, "Email verified successfully")
                EXCEPT !.email = e, !.token = reqs[r].token,
                       !.isEmailVerified = TRUE, !.stage = "handled",
                       !.mailOk = mailOk]
  /\ reqs' = [reqs EXCEPT ![r] = IdleReq]
  /\ UNCHANGED <<req, now, authUsers, userProfiles, emailVerification, nextToken,
                 hits, nreq, ticks, resetUses, failStreak, shortRejected, api, fb>>

(* ---------------------- POST /resend-verification --------------------- *)
\* The response decided by the lookup's result, before any token is issued.
resendLookupResponse(u) ==
  IF ~u.exists THEN Response("resend", 404, FALSE, "User not found")
  ELSE IF u.isEmailVerified
    THEN Response("resend", 400, FALSE, "Email is already verified")
  ELSE Response("resend", 200, TRUE, "Verification email sent successfully")

\* From the request's arrival to the token drawn after User.findOne resolved.
ResendVerificationFind(r, ip, email, storeOk) ==
  LET key == keyGenerator(ip, "")
      e == toLowerCase(email)
      resp == resendLookupResponse(UserfindOne(e))
  IN
  /\ reqs[r].pc = "idle"
  /\ nreq' = nreq + 1
  /\ hits' = HitsAfter("resend", key)
  /\ IF Limited("resend", key) THEN
       /\ last' = [TooManyAttempts("resend") EXCEPT !.stage = "limited"]
       /\ UNCHANGED <<reqs, nextToken>>
     ELSE IF email = "" THEN
       /\ last' = [Response("resend", 400, FALSE, "Email is required")
                     EXCEPT !.stage = "validation"]
       /\ UNCHANGED <<reqs, nextToken>>
     ELSE IF ~storeOk THEN
       /\ last' = [Response("resend", 500, FALSE,
                            "Failed to resend verification email")
                     EXCEPT !.email = e, !.stage = "storeError"]
       /\ UNCHANGED <<reqs, nextToken>>
     ELSE IF ~resp.success THEN
       /\ last' = [resp EXCEPT !.email = e, !.stage = "handled"]
       /\ UNCHANGED <<reqs, nextToken>>
     ELSE
       /\ nextToken < MaxTokens
       /\ nextToken' = nextToken + 1
       /\ reqs' = [reqs EXCEPT ![r] =
                     [IdleReq EXCEPT !.pc = "resend", !.user = e,
                                     !.token = nextToken + 1]]
       /\ UNCHANGED last
  /\ UNCHANGED <<req, now, users, authUsers, userProfiles, emailVerification,
                 ticks, verifiedTokens, resetUses, failStreak, shortRejected, api, fb>>

\* Variant: a token that is still outstanding is kept.
resendVerificationUpdate_KeepOutstanding(u, token) ==
  IF u.emailVerificationToken # NoToken THEN u
  ELSE [u EXCEPT !.emailVerificationToken = token,
                 !.emailVerificationExpires = now + VerifyTTL]

\* What the handler assigns before user.save(): the new token replaces
\* whatever token the document held.
resendVerificationUpdate(u, token) ==
  [u EXCEPT !.emailVerificationToken = token,
            !.emailVerificationExpires = now + VerifyTTL]

\* user.save(), the verification email (a failure reaches the handler's
\* catch) and the response.
ResendVerificationSave(r, mailOk) ==
  LET e == reqs[r].user IN
  /\ reqs[r].pc = "resend"
  /\ users' = [users EXCEPT
                 ![e] = resendVerificationUpdate(users[e], reqs[r].token)]
  /\ last' = [(IF mailOk
                 THEN Response("resend", 200, TRUE,
                               "Verification email sent successfully")
                 ELSE Response("resend", 500, FALSE,
                               "Failed to resend verification email"))
                EXCEPT !.email = e, !.token = reqs[r].token,
                       !.stage = "handled", !.mailOk = mailOk]
  /\ reqs' = [reqs EXCEPT ![r] = IdleReq]
  /\ UNCHANGED <<req, now, authUsers, userProfiles, emailVerification, nextToken,
                 hits, nreq, ticks, verifiedTokens, resetUses, failStreak,
                 shortRejected, api, fb>>

(* ------------------------ POST /reset-password ------------------------ *)
PasswordTooShort ==
  Response("reset", 400, FALSE, "Password must be at least 8 characters long")

InvalidResetToken ==
  Response("reset", 400, FALSE, "Invalid or expired reset token")

\* Variant: the length check is left out.
resetValidation_NoLengthCheck(token, password) ==
  IF token = NoToken \/ password = ""
    THEN Response("reset", 400, FALSE,
                  "Reset token and new password are required")
  ELSE Response("reset", 200, TRUE, "Password reset successfully")

\* The checks the handler makes on the request body before any lookup.
resetValidation(token, password) ==
  IF token = NoToken \/ password = ""
    THEN Response("reset", 400, FALSE,
                  "Reset token and new password are required")
  ELSE IF Len(password) < MinPasswordLength THEN PasswordTooShort
  ELSE Response("reset", 200, TRUE, "Password reset successfully")

\* Variant: the failed-login counter is left as it is.
resetPasswordUpdate_KeepAttempts(u, password) ==
  [u EXCEPT !.password = password,
            !.passwordResetToken = NoToken,
            !.passwordResetExpires = 0]

\* What the handler assigns before user.save().
resetPasswordUpdate(u, password) ==
  [u EXCEPT !.password = password,
            !.passwordResetToken = NoToken,
            !.passwordResetExpires = 0,
            !.loginAttempts = 0]

\* From the request's arrival to the result of User.findByResetToken.
ResetPasswordFind(r, ip, token, password, storeOk) ==
  LET key == keyGenerator(ip, "")
      tag(resp, stage) == [resp EXCEPT !.token = token,
                             !.password = password, !.stage = stage]
  IN
  /\ reqs[r].pc = "idle"
  /\ nreq' = nreq + 1
  /\ hits' = HitsAfter("reset", key)
  /\ IF Limited("reset", key) THEN
       /\ last' = tag(TooManyAttempts("reset"), "limited")
       /\ UNCHANGED <<reqs, shortRejected>>
     ELSE IF ~resetValidation(token, password).success THEN
       /\ last' = tag(resetValidation(token, password), "validation")
       /\ UNCHANGED reqs
       /\ shortRejected' =
            IF /\ password # ""
               /\ Len(password) < 8
               /\ FoundByResetToken(token) # {}
              THEN shortRejected \cup {token}
              ELSE shortRejected
     ELSE IF ~storeOk THEN
       /\ last' = tag(Response("reset", 500, FALSE, "Password reset failed"),
                      "storeError")
       /\ UNCHANGED <<reqs, shortRejected>>
     ELSE IF FoundByResetToken(token) = {} THEN
       /\ last' = tag(InvalidResetToken, "handled")
       /\ UNCHANGED <<reqs, shortRejected>>
     ELSE
       /\ \E e \in FoundByResetToken(token) :
            reqs' = [reqs EXCEPT ![r] =
                       [IdleReq EXCEPT !.pc = "reset", !.user = e,
                                       !.token = token,
                                       !.password = password]]
       /\ UNCHANGED <<last, shortRejected>>
  /\ UNCHANGED <<req, now, users, authUsers, userProfiles, emailVerification,
                 nextToken, ticks, verifiedTokens, resetUses, failStreak, api, fb>>

\* user.save() and the response.
ResetPasswordSave(r) ==
  LET e == reqs[r].user IN
  /\ reqs[r].pc = "reset"
  /\ users' = [users EXCEPT
                 ![e] = resetPasswordUpdate(users[e], reqs[r].password)]
  /\ resetUses' = [resetUses EXCEPT ![reqs[r].token] = @ + 1]
  /\ failStreak' = [failStreak EXCEPT ![e] = 0]
  /\ last' = [Response("reset", 200, TRUE, "Password reset successfully")
                EXCEPT !.email = e, !.token = reqs[r].token,
                       !.password = reqs[r].password, !.stage = "handled"]
  /\ reqs' = [reqs EXCEPT ![r] = IdleReq]
  /\ UNCHANGED <<req, now, authUsers, userProfiles, emailVerification, nextToken,
                 hits, nreq, ticks, verifiedTokens, shortRejected, api, fb>>

(* ------------------ authenticateToken / optionalAuth ------------------ *)
\* The Authorization header as header.split(' ') yields it; <<>> is an
\* absent header and <<"Bearer", "">> is the header 'Bearer '.
Headers ==
  {<<>>, <<"Basic", "jwt:a@x">>, <<"bearer", "jwt:a@x">>, <<"Bearer", "">>,
   <<"Bearer", "garbage">>, <<"Bearer", "expired:a@x">>,
   <<"Bearer", "jwt:a@x">>, <<"Bearer", "jwt:b@x">>}

\* The identity an ID token was issued to ("" for a string that is none).
TokenUid(token) ==
  CASE token \in {"jwt:a@x", "expired:a@x"} -> "a@x"
    [] token = "jwt:b@x" -> "b@x"
    [] OTHER -> ""

\* authHeader && authHeader.startsWith('Bearer ')
\*   ? authHeader.split(' ')[1] : null; "" is the falsy result.
extractToken(header) ==
  IF Len(header) >= 2 /\ header[1] = "Bearer" THEN header[2] ELSE ""

\* auth.verifyIdToken(token): the decoded uid, or the code of the error
\* thrown; providerOk is false when the provider cannot be reached.
verifyIdToken(token, providerOk) ==
  IF ~providerOk THEN [ok |-> FALSE, uid |-> "", code |-> "app/network-error"]
  ELSE IF token \in {"jwt:a@x", "jwt:b@x"}
    THEN [ok |-> TRUE, uid |-> TokenUid(token), code |-> ""]
  ELSE IF token = "expired:a@x"
    THEN [ok |-> FALSE, uid |-> "", code |-> "auth/id-token-expired"]
  ELSE [ok |-> FALSE, uid |-> "", code |-> "auth/argument-error"]

\* userHelpers.getUserById: { uid, email, emailVerified, ...profileData };
\* it throws when auth.getUser or the document read fails, and spreads
\* nothing when the Profile document is missing.
getUserById(uid, storeOk) ==
  IF ~storeOk \/ uid \notin authUsers
    THEN [threw |-> TRUE, user |-> NullUser]
    ELSE [threw |-> FALSE,
          user |-> IF userProfiles[uid].exists
                     THEN [isNull |-> FALSE, uid |-> uid, id |-> uid,
                           emailVerified |-> userProfiles[uid].emailVerified,
                           role |-> Str(userProfiles[uid].role),
                           subscription |-> NoSubscription]
                     ELSE [isNull |-> FALSE, uid |-> uid, id |-> "undefined",
                           emailVerified |-> FALSE,
                           role |-> Undefined,
                           subscription |-> NoSubscription]]

\* What an authentication middleware does with a request: the response it
\* sends or the call of next(), and what it attached to req.
Attach(user, uid, decoded) ==
  [next |-> TRUE, res |-> NoRes, user |-> user, uid |-> uid,
   decoded |-> decoded]

Deny(res, decoded) ==
  [next |-> FALSE, res |-> res, user |-> NullUser, uid |-> "",
   decoded |-> decoded]

AuthenticationFailed == Reject(500, "Authentication failed", "")

\* Variant: every error the catch block sees is answered 500.
authenticationError_Always500(code) == AuthenticationFailed

\* The catch block's answer to an error carrying code.
authenticationError(code) ==
  IF code = "auth/id-token-expired" THEN Reject(401, "Token expired", "")
  ELSE IF code \in {"auth/argument-error", "auth/invalid-id-token"}
    THEN Reject(401, "Invalid token", "")
  ELSE AuthenticationFailed

\* Variant: next() is called although the token did not verify.
authenticateToken_SkipVerify(header, providerOk, storeOk) ==
  LET token == extractToken(header)
      lookup == getUserById(TokenUid(token), storeOk)
  IN
  IF token = "" THEN Deny(Reject(401, "Access token required", ""), "")
  ELSE IF lookup.threw THEN Deny(AuthenticationFailed, "")
  ELSE Attach(lookup.user, TokenUid(token), "")

authenticateToken(header, providerOk, storeOk) ==
  LET token == extractToken(header)
      decodedToken == verifyIdToken(token, providerOk)
      lookup == getUserById(decodedToken.uid, storeOk)
  IN
  IF token = "" THEN Deny(Reject(401, "Access token required", ""), "")
  ELSE IF ~decodedToken.ok
    THEN Deny(authenticationError(decodedToken.code), "")
  ELSE IF lookup.threw
    \* Error('Failed to get user: ...') carries no code
    THEN Deny(authenticationError(""), decodedToken.uid)
  ELSE IF lookup.user.isNull
    THEN Deny(Reject(401, "User not found", ""), decodedToken.uid)
  ELSE Attach(lookup.user, decodedToken.uid, decodedToken.uid)

\* Variant: an unverifiable token is answered like authenticateToken does.
optionalAuth_Strict(header, providerOk, storeOk) ==
  authenticateToken(header, providerOk, storeOk)

optionalAuth(header, providerOk, storeOk) ==
  LET token == extractToken(header)
      decodedToken == verifyIdToken(token, providerOk)
      lookup == getUserById(decodedToken.uid, storeOk)
  IN
  IF token = "" THEN Attach(NullUser, "", "")
  ELSE IF ~decodedToken.ok THEN Attach(NullUser, "", "")
  ELSE IF lookup.threw THEN Attach(NullUser, "", decodedToken.uid)
  ELSE Attach(lookup.user, decodedToken.uid, decodedToken.uid)

(* ------------------------ access-control gates ------------------------ *)
\* What a middleware does with a request: it calls next() or sends res.
CallNext == [next |-> TRUE, res |-> NoRes]

Send(res) == [next |-> FALSE, res |-> res]

AuthenticationRequired == Reject(401, "Authentication required", "")

InsufficientPermissions == Reject(403, "Insufficient permissions", "")

\* Array.prototype.includes
includes(xs, x) == \E i \in 1..Len(xs) : xs[i] = x

\* Variant: a hierarchy, in which admin satisfies every role gate.
requireRole_Hierarchy(roles, user) ==
  IF user.isNull THEN Send(AuthenticationRequired)
  ELSE IF ~ \/ includes(user.role.items, "admin")
            \/ \E i \in 1..Len(roles.items) :
                 includes(user.role.items, roles.items[i])
    THEN Send(InsufficientPermissions)
  ELSE CallNext

\* requireRole(roles) applied to a request whose req.user is user.
requireRole(roles, user) ==
  LET userRoles == user.role.items
      requiredRoles == roles.items
      hasRole == \E i \in 1..Len(requiredRoles) :
                   includes(userRoles, requiredRoles[i])
  IN
  IF user.isNull THEN Send(AuthenticationRequired)
  ELSE IF ~hasRole THEN Send(InsufficientPermissions)
  ELSE CallNext

requireAdmin(user) == requireRole(Arr(<<"admin">>), user)

PremiumRequired ==
  Reject(403, "Premium subscription required", "PREMIUM_REQUIRED")

requirePremium(user) ==
  LET subscription == user.subscription
      isPremium == /\ subscription.present
                   /\ subscription.type \in {"premium", "enterprise"}
                   /\ subscription.endDate # NullDate
                   /\ subscription.endDate > now
  IN
  IF user.isNull THEN Send(AuthenticationRequired)
  ELSE IF ~isPremium THEN Send(PremiumRequired)
  ELSE CallNext

EmailNotVerified ==
  Reject(403, "Email verification required", "EMAIL_NOT_VERIFIED")

\* Variant: the verified flag is not looked at.
requireEmailVerification_Open(user) ==
  IF user.isNull THEN Send(AuthenticationRequired) ELSE CallNext

requireEmailVerification(user) ==
  IF user.isNull THEN Send(AuthenticationRequired)
  ELSE IF ~user.emailVerified THEN Send(EmailNotVerified)
  ELSE CallNext

\* The gates applied on their own to a request that already carries a
\* req.user (or none): the request records the gate and its outcome.
Gated(gate, roles, outcome) ==
  /\ req.stage = "gate"
  /\ req' = [req EXCEPT !.stage = "done", !.route = gate, !.roles = roles,
                        !.res = outcome.res,
                        !.nexts = IF outcome.next THEN 1 ELSE 0]
  /\ UNCHANGED <<now, users, authUsers, userProfiles, emailVerification,
                 nextToken, hits, reqs, last, nreq, ticks, verifiedTokens,
                 resetUses, failStreak, shortRejected, api, fb>>

(* -------------------------- protected routes -------------------------- *)
\* Variant: the limiter is mounted first on the rate-limited routes.
Chain_LimiterFirst(route) ==
  CASE route = "profile" -> <<"authenticateToken">>
    [] route = "change-password" -> <<"limiter", "authenticateToken">>
    [] route = "account" ->
         <<"limiter", "authenticateToken", "requireEmailVerification">>
    [] route = "admin/users" -> <<"authenticateToken", "requireAdmin">>
    [] route = "admin/users/role" -> <<"authenticateToken", "requireAdmin">>
    [] route = "public" -> <<"optionalAuth">>

\* The middlewares mounted on a route, in the order router.METHOD lists
\* them, before the route's handler.  No route of the sources mounts the
\* exported optionalAuth; "public" stands for a route that does.
Chain(route) ==
  CASE route = "profile" -> <<"authenticateToken">>
    [] route = "change-password" -> <<"authenticateToken", "limiter">>
    [] route = "account" ->
         <<"authenticateToken", "requireEmailVerification", "limiter">>
    [] route = "admin/users" -> <<"authenticateToken", "requireAdmin">>
    [] route = "admin/users/role" -> <<"authenticateToken", "requireAdmin">>
    [] route = "public" -> <<"optionalAuth">>

Routes == {"profile", "change-password", "account", "admin/users", "public"}

\* What next() passes the request to.
After(route, stage) ==
  LET chain == Chain(route)
      i == CHOOSE j \in 1..Len(chain) : chain[j] = stage
  IN IF i = Len(chain) THEN "handler" ELSE chain[i + 1]

PipelineFrame ==
  UNCHANGED <<now, users, authUsers, userProfiles, emailVerification,
              nextToken, reqs, last, ticks, verifiedTokens, resetUses,
              failStreak, shortRejected, api, fb>>

\* A request to a protected route arrives.  An ID token names an identity
\* the provider has issued it to, so it is presented only for an identity
\* that exists.
ProtectedRequest(route, ip, header) ==
  LET uid == IF Len(header) >= 2 THEN TokenUid(header[2]) ELSE "" IN
  /\ req.stage \in {"idle", "done"}
  /\ uid # "" => uid \in authUsers
  /\ nreq' = nreq + 1
  /\ req' = [IdleRequest EXCEPT
               !.route = route, !.ip = ip, !.authorization = header,
               !.stage = Chain(route)[1],
               !.wasVerified = (uid # "" /\ users[uid].isEmailVerified)]
  /\ UNCHANGED hits
  /\ PipelineFrame

\* A middleware's outcome applied to the request.
Proceed(outcome) ==
  [req EXCEPT !.res = outcome.res,
              !.nexts = IF outcome.next THEN 1 ELSE 0,
              !.stage = IF outcome.next THEN After(req.route, req.stage)
                                        ELSE "done"]

AuthenticateToken(providerOk, storeOk) ==
  LET outcome == authenticateToken(req.authorization, providerOk, storeOk) IN
  /\ req.stage = "authenticateToken"
  /\ req' = [Proceed(outcome) EXCEPT !.user = outcome.user,
                !.uid = outcome.uid, !.decoded = outcome.decoded,
                !.code = IF extractToken(req.authorization) = "" THEN ""
                         ELSE verifyIdToken(extractToken(req.authorization),
                                            providerOk).code]
  /\ UNCHANGED <<hits, nreq>>
  /\ PipelineFrame

OptionalAuth(providerOk, storeOk) ==
  LET outcome == optionalAuth(req.authorization, providerOk, storeOk) IN
  /\ req.stage = "optionalAuth"
  /\ req' = [Proceed(outcome) EXCEPT !.user = outcome.user,
                !.uid = outcome.uid, !.decoded = outcome.decoded,
                !.code = IF extractToken(req.authorization) = "" THEN ""
                         ELSE verifyIdToken(extractToken(req.authorization),
                                            providerOk).code]
  /\ UNCHANGED <<hits, nreq>>
  /\ PipelineFrame

RequireEmailVerification ==
  /\ req.stage = "requireEmailVerification"
  /\ req' = Proceed(requireEmailVerification(req.user))
  /\ UNCHANGED <<hits, nreq>>
  /\ PipelineFrame

RequireAdmin ==
  /\ req.stage = "requireAdmin"
  /\ req' = Proceed(requireAdmin(req.user))
  /\ UNCHANGED <<hits, nreq>>
  /\ PipelineFrame

\* sensitiveOperationLimiter mounted on the route: the key is
\* req.ip + (req.uid || req.user?.uid || '').
SensitiveOperationLimiter ==
  LET uid == IF req.uid # "" THEN req.uid
             ELSE IF ~req.user.isNull THEN req.user.uid ELSE ""
      key == keyGenerator(req.ip, uid)
      outcome == IF Limited(req.route, key)
                   THEN Send(Reject(429,
                          "Too many attempts, please try again later", ""))
                   ELSE CallNext
  IN
  /\ req.stage = "limiter"
  /\ hits' = HitsAfter(req.route, key)
  /\ req' = [Proceed(outcome) EXCEPT !.counted = TRUE]
  /\ UNCHANGED nreq
  /\ PipelineFrame

\* The route's handler is entered.
Handler ==
  /\ req.stage = "handler"
  /\ req' = [req EXCEPT !.stage = "done", !.handled = TRUE]
  /\ UNCHANGED <<hits, nreq>>
  /\ PipelineFrame

(* ----------------------- handlers of routes/user ---------------------- *)
\* authenticateToken has attached user to a request for route and called
\* next().
AuthenticatedRequest(route, ip, user) ==
  /\ req.stage \in {"idle", "done"}
  /\ nreq' = nreq + 1
  /\ req' = [IdleRequest EXCEPT
               !.route = route, !.ip = ip, !.user = user,
               !.uid = user.uid, !.decoded = user.uid, !.nexts = 1,
               !.stage = After(route, "authenticateToken")]
  /\ UNCHANGED hits
  /\ PipelineFrame

\* The handler's response and the body it read.
Respond(body, res) ==
  [req EXCEPT !.stage = "done", !.handled = TRUE, !.body = body, !.res = res]

\* res.json({success: true, message})
Accept(message) ==
  [status |-> 200, success |-> TRUE, message |-> message, code |-> ""]

\* GET /profile: res.json({success: true, data: {user}}); the body has no
\* message key, which the empty message stands for.
GetProfile ==
  /\ req.stage = "handler"
  /\ req.route = "profile"
  /\ req' = Respond(NoBody, Accept(""))
  /\ UNCHANGED <<now, users, authUsers, userProfiles, emailVerification,
                 nextToken, hits, reqs, last, nreq, ticks, verifiedTokens,
                 resetUses, failStreak, shortRejected, api, fb>>

\* PUT /profile: the updates object built from the body; of the keys the
\* model carries only firstName is copied.
profileUpdates(body) ==
  [f \in {g \in {"firstName"} : body[g] # "undefined"} |-> body[f]]

\* PUT /profile
UpdateProfile(body, storeOk) ==
  LET updates == profileUpdates(body)
      id == Get(req.user, "_id")
  IN
  /\ req.stage = "handler"
  /\ req.route = "profile"
  /\ IF body.firstName = "" THEN
       /\ req' = Respond(body, Reject(400, "First name cannot be empty", ""))
       /\ UNCHANGED users
     ELSE IF DOMAIN updates = {} THEN
       /\ req' = Respond(body, Reject(400, "No valid updates provided", ""))
       /\ UNCHANGED users
     ELSE IF ~storeOk \/ ~UserfindById(id).exists THEN
       \* findByIdAndUpdate throws, or resolves to null and reading
       \* updatedUser._id throws
       /\ req' = Respond(body, Reject(500, "Failed to update profile", ""))
       /\ UNCHANGED users
     ELSE
       /\ users' = [users EXCEPT ![id] =
                      [f \in DOMAIN users[id] |->
                         IF f \in DOMAIN updates THEN updates[f]
                                                 ELSE users[id][f]]]
       /\ req' = Respond(body, Accept("Profile updated successfully"))
  /\ UNCHANGED <<now, authUsers, userProfiles, emailVerification, nextToken,
                 hits, reqs, last, nreq, ticks, verifiedTokens, resetUses,
                 failStreak, shortRejected, api, fb>>

\* PUT /change-password; body.password is currentPassword.
ChangePassword(body, storeOk) ==
  LET id == Get(req.user, "_id")
      user == UserfindById(id)
  IN
  /\ req.stage = "handler"
  /\ req.route = "change-password"
  /\ IF body.password = "" \/ body.newPassword = "" THEN
       /\ req' = Respond(body, Reject(400,
                   "Current password and new password are required", ""))
       /\ UNCHANGED users
     ELSE IF Len(body.newPassword) < 8 THEN
       /\ req' = Respond(body, Reject(400,
                   "New password must be at least 8 characters long", ""))
       /\ UNCHANGED users
     ELSE IF ~storeOk THEN
       /\ req' = Respond(body, Reject(500, "Failed to change password", ""))
       /\ UNCHANGED users
     ELSE IF ~user.exists THEN
       /\ req' = Respond(body, Reject(404, "User not found", ""))
       /\ UNCHANGED users
     ELSE IF ~comparePassword(user, body.password) THEN
       /\ req' = Respond(body, Reject(401, "Current password is incorrect", ""))
       /\ UNCHANGED users
     ELSE
       /\ users' = [users EXCEPT ![id].password = body.newPassword]
       /\ req' = Respond(body, Accept("Password changed successfully"))
  /\ UNCHANGED <<now, authUsers, userProfiles, emailVerification, nextToken,
                 hits, reqs, last, nreq, ticks, verifiedTokens, resetUses,
                 failStreak, shortRejected, api, fb>>

\* DELETE /account
DeleteAccount(body, storeOk) ==
  LET id == Get(req.user, "_id")
      user == UserfindById(id)
  IN
  /\ req.stage = "handler"
  /\ req.route = "account"
  /\ IF body.password = "" THEN
       /\ req' = Respond(body, Reject(400,
                   "Password is required to delete account", ""))
       /\ UNCHANGED users
     ELSE IF body.confirmation # "DELETE" THEN
       /\ req' = Respond(body, Reject(400,
                   "Please type \"DELETE\" to confirm account deletion", ""))
       /\ UNCHANGED users
     ELSE IF ~storeOk THEN
       /\ req' = Respond(body, Reject(500, "Failed to delete account", ""))
       /\ UNCHANGED users
     ELSE IF ~user.exists THEN
       /\ req' = Respond(body, Reject(404, "User not found", ""))
       /\ UNCHANGED users
     ELSE IF ~comparePassword(user, body.password) THEN
       /\ req' = Respond(body, Reject(401, "Password is incorrect", ""))
       /\ UNCHANGED users
     ELSE
       \* User.findByIdAndDelete(user._id)
       /\ users' = [users EXCEPT ![id] = NoUser]
       /\ req' = Respond(body, Accept("Account deleted successfully"))
  /\ UNCHANGED <<now, authUsers, userProfiles, emailVerification, nextToken,
                 hits, reqs, last, nreq, ticks, verifiedTokens, resetUses,
                 failStreak, shortRejected, api, fb>>

\* PUT /admin/users/:userId/role; body.userId is req.params.userId.
UpdateUserRole(body, storeOk) ==
  /\ req.stage = "handler"
  /\ req.route = "admin/users/role"
  /\ IF body.role \notin {"user", "admin", "premium"} THEN
       /\ req' = Respond(body, Reject(400,
                   "Invalid role. Must be: user, admin, or premium", ""))
       /\ UNCHANGED users
     ELSE IF ~storeOk THEN
       /\ req' = Respond(body, Reject(500, "Failed to update user role", ""))
       /\ UNCHANGED users
     ELSE IF ~UserfindById(body.userId).exists THEN
       /\ req' = Respond(body, Reject(404, "User not found", ""))
       /\ UNCHANGED users
     ELSE
       /\ users' = [users EXCEPT ![body.userId].role = body.role]
       /\ req' = Respond(body, Accept("User role updated successfully"))
  /\ UNCHANGED <<now, authUsers, userProfiles, emailVerification, nextToken,
                 hits, reqs, last, nreq, ticks, verifiedTokens, resetUses,
                 failStreak, shortRejected, api, fb>>

(* ------------------- session refresh (client, server) ------------------ *)
\* The refresh route's middleware: the refresh tokens the server accepts
\* and the account each belongs to.
validateRefreshToken(refreshToken) ==
  IF refreshToken \in {"refresh:a@x", "rotated:a@x"}
    THEN [ok |-> TRUE, _id |-> "a@x"]
    ELSE [ok |-> FALSE, _id |-> ""]

\* The auth router's answer to POST path with body {refreshToken}: json is
\* false for the answer to a path no route is registered for, which is not
\* a JSON document.
refreshTokenRoute(path, refreshToken) ==
  LET user == validateRefreshToken(refreshToken) IN
  IF path # "/auth/refresh-token"
    THEN [json |-> FALSE, success |-> FALSE, token |-> "", refreshToken |-> ""]
  ELSE IF ~user.ok
    THEN [json |-> TRUE, success |-> FALSE, token |-> "", refreshToken |-> ""]
  ELSE [json |-> TRUE, success |-> TRUE, token |-> "jwt:" \o user._id,
        refreshToken |-> "rotated:" \o user._id]

\* The page is loaded: a WETApi is constructed from localStorage, whose
\* item wet_user the instance reads on demand.
Construct(token, refreshToken, user) ==
  /\ api.pc = "idle"
  /\ api' = [NewWETApi(token, refreshToken) EXCEPT !.wet_user = user]
  /\ UNCHANGED <<now, users, authUsers, userProfiles, emailVerification,
                 nextToken, hits, reqs, last, nreq, ticks, verifiedTokens,
                 resetUses, failStreak, shortRejected, req, fb>>

\* The server's answer to a request carrying getAuthHeaders() for a route
\* behind authenticateToken; the answer of a request that passed the
\* middleware is returned to the caller unread.
fetchProtected(token) ==
  LET headers == IF token # "" THEN <<"Bearer", token>> ELSE <<>>
      outcome == authenticateToken(headers, TRUE, TRUE)
  IN IF outcome.next THEN [NoRes EXCEPT !.status = 200, !.success = TRUE]
                     ELSE outcome.res

\* Variant: the refresh token is kept.
clearTokens_KeepRefreshToken(a) == [a EXCEPT !.token = "", !.wet_user = ""]

\* clearTokens()
clearTokens(a) ==
  [a EXCEPT !.token = "", !.refreshToken = "", !.wet_user = ""]

\* makeRequest(endpoint) up to the first response, which is data; netOk is
\* false when fetch rejects.
MakeRequest(endpoint, netOk, data) ==
  LET headers == IF api.token # "" THEN <<"Bearer", api.token>> ELSE <<>>
      call == [NewWETApi(api.token, api.refreshToken)
                 EXCEPT !.endpoint = endpoint, !.sent = headers,
                        !.sends = 1, !.wet_user = api.wet_user,
                        !.location = api.location]
  IN
  /\ api.pc = "idle"
  /\ api' = IF ~netOk THEN [call EXCEPT !.returned = "threw", !.net = FALSE]
            ELSE IF data.status = 401 /\ data.message = "Token expired"
              THEN [call EXCEPT !.pc = "refreshAccessToken",
                                !.expired = TRUE,
                                !.held = api.refreshToken]
            ELSE [call EXCEPT !.returned = "data", !.data = data]
  /\ UNCHANGED <<now, users, authUsers, userProfiles, emailVerification,
                 nextToken, hits, reqs, last, nreq, ticks, verifiedTokens,
                 resetUses, failStreak, shortRejected, req, fb>>

\* refreshAccessToken(), whose POST to path is answered by response, and
\* what makeRequest does with its result: the new pair is stored and the
\* request is about to be retried, or the tokens are cleared, the page is
\* redirected and makeRequest returns null.
RefreshAccessToken(netOk, response) ==
  LET path == "/auth/refresh"
      failed == [clearTokens(api) EXCEPT !.pc = "idle", !.returned = "null",
                                         !.location = "/index.html"]
      posted == [failed EXCEPT !.path = path,
                               !.refreshes = api.refreshes + 1]
  IN
  /\ api.pc = "refreshAccessToken"
  /\ api' = IF api.refreshToken = "" THEN failed
            ELSE IF ~netOk THEN [posted EXCEPT !.net = FALSE]
            ELSE IF ~response.json \/ ~response.success THEN posted
            ELSE [api EXCEPT !.token = response.token,
                             !.refreshToken = response.refreshToken,
                             !.path = path,
                             !.refreshes = api.refreshes + 1,
                             !.pc = "retry"]
  /\ UNCHANGED <<now, users, authUsers, userProfiles, emailVerification,
                 nextToken, hits, reqs, last, nreq, ticks, verifiedTokens,
                 resetUses, failStreak, shortRejected, req, fb>>

\* Variant: a retry answered 'Token expired' starts another refresh.
RetryRequest_RefreshAgain(netOk, data) ==
  LET headers == IF api.token # "" THEN <<"Bearer", api.token>> ELSE <<>>
      sent == [api EXCEPT !.retried = TRUE, !.sent = headers,
                          !.sends = api.sends + 1]
  IN
  /\ api.pc = "retry"
  /\ api' = IF ~netOk THEN [sent EXCEPT !.pc = "idle", !.returned = "threw"]
            ELSE IF data.status = 401 /\ data.message = "Token expired"
              THEN [sent EXCEPT !.pc = "refreshAccessToken"]
            ELSE [sent EXCEPT !.pc = "idle", !.returned = "data",
                              !.data = data]
  /\ UNCHANGED <<now, users, authUsers, userProfiles, emailVerification,
                 nextToken, hits, reqs, last, nreq, ticks, verifiedTokens,
                 resetUses, failStreak, shortRejected, req, fb>>

\* The retry with the new headers, answered by data, which is returned
\* whatever it is.
RetryRequest(netOk, data) ==
  LET headers == IF api.token # "" THEN <<"Bearer", api.token>> ELSE <<>>
      sent == [api EXCEPT !.retried = TRUE, !.sent = headers,
                          !.sends = api.sends + 1, !.pc = "idle"]
  IN
  /\ api.pc = "retry"
  /\ api' = IF ~netOk THEN [sent EXCEPT !.returned = "threw"]
            ELSE [sent EXCEPT !.returned = "data", !.data = data]
  /\ UNCHANGED <<now, users, authUsers, userProfiles, emailVerification,
                 nextToken, hits, reqs, last, nreq, ticks, verifiedTokens,
                 resetUses, failStreak, shortRejected, req, fb>>

(* ------------------- FirebaseWETApi auth-state callback ---------------- *)
\* The onAuthStateChanged callback runs with user (the signed-in user, or
\* "" for null after a sign-out): a getIdToken() request is started, or
\* the token is dropped.
AuthStateChanged(user) ==
  /\ user # fb.currentUser \/ fb.changes = 0
  /\ fb' = IF user # ""
             THEN [fb EXCEPT !.currentUser = user,
                             !.pending[user] = fb.pending[user] + 1,
                             !.changes = fb.changes + 1]
             ELSE [fb EXCEPT !.currentUser = "", !.authToken = "",
                             !.wet_token = "",
                             !.changes = fb.changes + 1]
  /\ UNCHANGED <<now, users, authUsers, userProfiles, emailVerification,
                 nextToken, hits, reqs, last, nreq, ticks, verifiedTokens,
                 resetUses, failStreak, shortRejected, req, api>>

\* A getIdToken() promise of user settles: the then-callback stores the
\* token, or the promise rejects and nothing handles it.
GetIdTokenSettles(user, resolved) ==
  /\ fb.pending[user] > 0
  /\ fb' = IF resolved
             THEN [fb EXCEPT !.pending[user] = fb.pending[user] - 1,
                             !.authToken = "jwt:" \o user,
                             !.wet_token = "jwt:" \o user]
             ELSE [fb EXCEPT !.pending[user] = fb.pending[user] - 1]
  /\ UNCHANGED <<now, users, authUsers, userProfiles, emailVerification,
                 nextToken, hits, reqs, last, nreq, ticks, verifiedTokens,
                 resetUses, failStreak, shortRejected, req, api>>

(* --------------------------- specifications --------------------------- *)
\* Request bodies for /register: a complete body for each email, and the
\* complete body with one required field left out.
CompleteBody(email) ==
  [email |-> email, password |-> "Passw0rd!", firstName |-> "Alice",
   lastName |-> "A"]

RegisterBodies ==
  {CompleteBody(email) : email \in EmailInputs}
    \cup {[CompleteBody("A@x") EXCEPT ![f] = ""] :
             f \in {"password", "firstName", "lastName"}}

\* A request that suspends takes the lowest free handler slot.
FreeSlot(r) ==
  /\ reqs[r].pc = "idle"
  /\ \A q \in Slots : q < r => reqs[q].pc # "idle"

\* The handlers fall into two groups that touch disjoint state: register,
\* verify-email and resend-verification use the Firebase stores and the
\* verification fields of the User documents; login, forgot-password and
\* reset-password use the password, reset-token and lockout fields.  Each
\* group is explored under its own specification, its requests coming from
\* one client address; the login route, whose limiter and lockout need
\* longer runs, is also explored alone with every client address.
Client == "ip1"

RegisterRequest ==
  /\ nreq < MaxReq
  /\ \E body \in RegisterBodies, fail \in RegisterFailures, mailOk \in BOOLEAN :
       Register(Client, body, fail, mailOk)

VerifyEmailRequest ==
  /\ nreq < MaxReq
  /\ \E r \in Slots, token \in {NoToken} \cup Tokens, storeOk \in BOOLEAN :
       FreeSlot(r) /\ VerifyEmailFind(r, token, storeOk)

ResendVerificationRequest ==
  /\ nreq < MaxReq
  /\ \E r \in Slots, email \in EmailInputs, storeOk \in BOOLEAN :
       FreeSlot(r) /\ ResendVerificationFind(r, Client, email, storeOk)

ForgotPasswordRequest ==
  /\ nreq < MaxReq
  /\ \E email \in EmailInputs, storeOk \in BOOLEAN, mailOk \in BOOLEAN :
       ForgotPassword(Client, email, storeOk, mailOk)

ResetPasswordRequest ==
  /\ nreq < MaxReq
  /\ \E r \in Slots, token \in {NoToken} \cup Tokens, password \in Passwords,
        storeOk \in BOOLEAN :
       FreeSlot(r) /\ ResetPasswordFind(r, Client, token, password, storeOk)

LoginRequest(cap, ips) ==
  /\ nreq < cap
  /\ \E ip \in ips, email \in EmailInputs, password \in Passwords,
        storeOk \in BOOLEAN :
       Login(ip, email, password, storeOk)

Advance == \E d \in Durations : Tick(d)

NextVerification ==
  \/ RegisterRequest
  \/ VerifyEmailRequest
  \/ ResendVerificationRequest
  \/ \E r \in Slots, mailOk \in BOOLEAN : VerifyEmailSave(r, mailOk)
  \/ \E r \in Slots, mailOk \in BOOLEAN : ResendVerificationSave(r, mailOk)
  \/ Advance

NextPassword ==
  \/ LoginRequest(MaxReq, {Client})
  \/ ForgotPasswordRequest
  \/ ResetPasswordRequest
  \/ \E r \in Slots : ResetPasswordSave(r)
  \/ Advance

\* Logins alone, long enough for the lockout threshold and the login
\* limiter's budget to be reached and for the window to elapse.
NextLogin ==
  \/ LoginRequest(MaxLoginReq, IPs)
  \/ Advance

Next == NextVerification \/ NextPassword \/ NextLogin

Spec == Init /\ [][Next]_vars

SpecVerification == Init /\ [][NextVerification]_vars

SpecPassword == Init /\ [][NextPassword]_vars

SpecLogin == Init /\ [][NextLogin]_vars

\* The state that five wrong-password logins for a@x, made from the second
\* client address while the clock stood at 0, leave behind; requests are
\* counted afresh from here.
InitLocked ==
  /\ now = 0
  /\ api = NewWETApi("", "")
  /\ fb = NewFirebaseWETApi
  /\ users = [e \in LowerEmails |->
               IF e = "a@x"
                 THEN [LegacyUser EXCEPT !.loginAttempts = MaxLoginAttempts]
                 ELSE NoUser]
  /\ authUsers = {}
  /\ userProfiles = [e \in LowerEmails |-> NoProfile]
  /\ emailVerification = [e \in LowerEmails |-> NoDoc]
  /\ nextToken = 0
  /\ hits = [ep \in Endpoints |->
              [k \in {keyGenerator(ip, uid) :
                         ip \in IPs, uid \in {""} \cup LowerEmails} |->
                IF ep = "login" /\ k = keyGenerator("ip2", "")
                  THEN [count |-> MaxLoginAttempts, resetTime |-> WindowMs]
                  ELSE [count |-> 0, resetTime |-> 0]]]
  /\ reqs = [r \in Slots |-> IdleReq]
  /\ last = [InvalidCredentials EXCEPT !.email = "a@x",
                !.password = "seven77", !.stage = "handled"]
  /\ nreq = 0
  /\ ticks = 0
  /\ verifiedTokens = {}
  /\ resetUses = [t \in Tokens |-> 0]
  /\ failStreak = [e \in LowerEmails |->
                    IF e = "a@x" THEN MaxLoginAttempts ELSE 0]
  /\ shortRejected = {}
  /\ req = IdleRequest

\* The password routes, started from the locked account.
SpecReset == InitLocked /\ [][NextPassword]_vars

\* Profiles the gates are applied to: every role of the Profile's enum, a
\* role array, a Profile without a role, each subscription type with an
\* end date that is null, near or far, and both values of the verified flag.
RoleValues ==
  {Str("user"), Str("premium"), Str("admin"), Arr(<<"user", "admin">>),
   Undefined}

EndDates == {NullDate, WindowMs, VerifyTTL + 1}

Subscriptions ==
  {NoSubscription}
    \cup {[present |-> TRUE, type |-> "free", endDate |-> NullDate]}
    \cup {[present |-> TRUE, type |-> t, endDate |-> d] :
             t \in {"premium", "enterprise"}, d \in EndDates}

SyntheticUsers ==
  {[isNull |-> FALSE, uid |-> "a@x", id |-> "a@x", emailVerified |-> v,
    role |-> r, subscription |-> sub] :
     v \in BOOLEAN, r \in RoleValues, sub \in Subscriptions}

\* Arguments given to requireRole.
RoleLists ==
  {Arr(<<"admin">>), Arr(<<"premium">>), Arr(<<"premium", "admin">>),
   Str("admin"), Arr(<<>>)}

InitGate ==
  /\ now = 0
  /\ api = NewWETApi("", "")
  /\ fb = NewFirebaseWETApi
  /\ users = [e \in LowerEmails |-> IF e = "a@x" THEN LegacyUser ELSE NoUser]
  /\ authUsers = {}
  /\ userProfiles = [e \in LowerEmails |-> NoProfile]
  /\ emailVerification = [e \in LowerEmails |-> NoDoc]
  /\ nextToken = 0
  /\ hits = [ep \in Endpoints |->
              [k \in {keyGenerator(ip, uid) :
                         ip \in IPs, uid \in {""} \cup LowerEmails} |->
                [count |-> 0, resetTime |-> 0]]]
  /\ reqs = [r \in Slots |-> IdleReq]
  /\ last = NoResponse
  /\ nreq = 0
  /\ ticks = 0
  /\ verifiedTokens = {}
  /\ resetUses = [t \in Tokens |-> 0]
  /\ failStreak = [e \in LowerEmails |-> 0]
  /\ shortRejected = {}
  /\ req \in {[IdleRequest EXCEPT !.stage = "gate", !.user = u] :
                u \in SyntheticUsers \cup {NullUser}}

ApplyRequireRole ==
  \E roles \in RoleLists :
    Gated("requireRole", roles, requireRole(roles, req.user))

ApplyRequireAdmin ==
  Gated("requireAdmin", Arr(<<"admin">>), requireAdmin(req.user))

ApplyRequirePremium ==
  Gated("requirePremium", Arr(<<>>), requirePremium(req.user))

ApplyRequireEmailVerification ==
  Gated("requireEmailVerification", Arr(<<>>),
        requireEmailVerification(req.user))

NextGate ==
  \/ ApplyRequireRole
  \/ ApplyRequireAdmin
  \/ ApplyRequirePremium
  \/ ApplyRequireEmailVerification
  \/ Advance

SpecGate == InitGate /\ [][NextGate]_vars

ProtectedArrival(cap, routes, headers) ==
  /\ nreq < cap
  /\ \E route \in routes, header \in headers :
       ProtectedRequest(route, Client, header)

Pipeline ==
  \/ \E providerOk \in BOOLEAN, storeOk \in BOOLEAN :
       AuthenticateToken(providerOk, storeOk)
  \/ \E providerOk \in BOOLEAN, storeOk \in BOOLEAN :
       OptionalAuth(providerOk, storeOk)
  \/ RequireEmailVerification
  \/ RequireAdmin
  \/ SensitiveOperationLimiter
  \/ Handler

\* Registrations that create an identity: with its Profile, or without it
\* when the Profile write fails after the identity was created.
IdentityRegistration ==
  /\ nreq < MaxReq
  /\ \E email \in {"A@x", "b@x"}, fail \in {"none", "createProfile"} :
       Register(Client, CompleteBody(email), fail, TRUE)

\* Registration and the protected routes: identities come into being
\* through register and then present their ID tokens.
NextProtected ==
  \/ IdentityRegistration
  \/ ProtectedArrival(MaxReq, Routes, Headers)
  \/ Pipeline
  \/ Tick(WindowMs)

SpecProtected == Init /\ [][NextProtected]_vars

\* Registration, verification and the rate-limited protected routes, one
\* of them open to verified accounts only, called with a valid ID token.
NextLifecycle ==
  \/ NextVerification
  \/ ProtectedArrival(MaxReq + 1, {"change-password", "account"},
                      {<<"Bearer", "jwt:a@x">>})
  \/ \E providerOk \in BOOLEAN, storeOk \in BOOLEAN :
       AuthenticateToken(providerOk, storeOk)
  \/ RequireEmailVerification
  \/ SensitiveOperationLimiter
  \/ Handler

SpecLifecycle == Init /\ [][NextLifecycle]_vars

\* The five rate-limited auth routes called from one client address, often
\* enough for every budget to be exceeded, with requests that end in each
\* kind of outcome: validation failure, store failure, not found,
\* conflict, wrong password, lockout, success and mail failure.  The
\* clock stands still, so all requests fall into one window.
AuthEndpoints == {"register", "login", "resend", "forgot", "reset"}

NextLimiter ==
  \/ /\ nreq < MaxLoginReq
     /\ \E fail \in {"none", "getUserByEmail"} :
          Register(Client, CompleteBody("A@x"), fail, TRUE)
  \/ /\ nreq < MaxLoginReq
     /\ \E storeOk \in BOOLEAN : Login(Client, "A@x", "seven77", storeOk)
  \/ /\ nreq < MaxLoginReq
     /\ \E r \in Slots, email \in {"A@x", "b@x"} :
          FreeSlot(r) /\ ResendVerificationFind(r, Client, email, TRUE)
  \/ /\ nreq < MaxLoginReq
     /\ \E email \in {"", "A@x"} : ForgotPassword(Client, email, TRUE, TRUE)
  \/ /\ nreq < MaxLoginReq
     /\ \E r \in Slots, password \in {"seven77", "N3wPassw0rd"} :
          FreeSlot(r) /\ ResetPasswordFind(r, Client, 1, password, TRUE)
  \/ \E r \in Slots, mailOk \in BOOLEAN : ResendVerificationSave(r, mailOk)
  \/ \E r \in Slots : ResetPasswordSave(r)

SpecLimiter == Init /\ [][NextLimiter]_vars

\* One client address that registers, logs in (no identity is attached to
\* a login request) and changes its password with a valid ID token (the
\* identity is attached before the limiter runs), one request at a time,
\* often enough to exhaust either budget and then call the other route.
NextKeys ==
  \/ /\ nreq < MaxLoginReq + 1
     /\ req.stage \in {"idle", "done"}
     /\ Register(Client, CompleteBody("A@x"), "none", TRUE)
  \/ /\ nreq < MaxLoginReq + 1
     /\ req.stage \in {"idle", "done"}
     /\ Login(Client, "A@x", "seven77", TRUE)
  \/ ProtectedArrival(MaxLoginReq + 1, {"change-password"},
                      {<<"Bearer", "jwt:a@x">>})
  \/ AuthenticateToken(TRUE, TRUE)
  \/ SensitiveOperationLimiter
  \/ Handler

SpecKeys == Init /\ [][NextKeys]_vars

\* Registrations, the email written in either letter case, with every body
\* and every collaborator failure, often enough for the register budget to
\* be exceeded, and deletions of the accounts through the server's helper
\* and through the Firebase client, with every collaborator failure.
NextRegister ==
  \/ /\ nreq < MaxLoginReq
     /\ \E body \in RegisterBodies \cup {CompleteBody("a@x")},
           fail \in RegisterFailures :
          Register(Client, body, fail, TRUE)
  \/ /\ nreq < MaxLoginReq
     /\ \E uid \in LowerEmails,
           fail \in {"none", "auth.deleteUser", "deleteDocument"} :
          DeleteUser(uid, fail)
  \/ /\ nreq < MaxLoginReq
     /\ \E uid \in LowerEmails, fail \in {"none", "deleteDoc", "deleteUser"} :
          ClientDeleteAccount(uid, fail)

SpecRegister == Init /\ [][NextRegister]_vars

\* A token that was issued before the run begins.
IssuedToken == MaxTokens + 1

\* Two accounts after their registrations, and after a resend-verification
\* and a forgot-password call for a@x, all made from the second client
\* address while the clock stood at 0: each account has its Identity, its
\* Profile and its User document, and a@x has a verification token and a
\* reset token outstanding.  Requests are counted afresh from here.
InitAccounts ==
  /\ now = 0
  /\ api = NewWETApi("", "")
  /\ fb = NewFirebaseWETApi
  /\ users = [e \in LowerEmails |->
               IF e = "a@x"
                 THEN [LegacyUser EXCEPT
                         !.emailVerificationToken = IssuedToken,
                         !.emailVerificationExpires = VerifyTTL,
                         !.passwordResetToken = IssuedToken,
                         !.passwordResetExpires = ResetTTL]
                 ELSE [LegacyUser EXCEPT !.password = "N3wPassw0rd",
                                         !.firstName = "Bob"]]
  /\ authUsers = LowerEmails
  /\ userProfiles = [e \in LowerEmails |-> createUserProfile]
  /\ emailVerification = [e \in LowerEmails |-> NoDoc]
  /\ nextToken = 0
  /\ hits = [ep \in Endpoints |->
              [k \in {keyGenerator(ip, uid) :
                         ip \in IPs, uid \in {""} \cup LowerEmails} |->
                IF k = keyGenerator("ip2", "") /\ ep = "register"
                  THEN [count |-> 2, resetTime |-> WindowMs]
                ELSE IF k = keyGenerator("ip2", "") /\ ep \in {"resend", "forgot"}
                  THEN [count |-> 1, resetTime |-> WindowMs]
                ELSE [count |-> 0, resetTime |-> 0]]]
  /\ reqs = [r \in Slots |-> IdleReq]
  /\ last = [GenericResetSent EXCEPT !.email = "a@x", !.stage = "handled",
                                     !.token = IssuedToken]
  /\ nreq = 0
  /\ ticks = 0
  /\ verifiedTokens = {}
  /\ resetUses = [t \in Tokens \cup {IssuedToken} |-> 0]
  /\ failStreak = [e \in LowerEmails |-> 0]
  /\ shortRejected = {}
  /\ req = IdleRequest

\* What authenticateToken may have attached to a request of the account
\* a@x: the handlers of routes/user read req.user._id, the id of a User
\* document, which the object built by getUserById does not have
\* ("undefined") and a User document has; the verified flag and the role
\* take each value the gates tell apart.
Callers ==
  {[isNull |-> FALSE, uid |-> "a@x", id |-> "a@x", _id |-> i,
    emailVerified |-> v, role |-> Str(r), subscription |-> NoSubscription] :
     i \in {"undefined", "a@x"}, v \in BOOLEAN, r \in {"user", "admin"}}

\* The handlers of routes/user behind their gates, called by a@x with
\* every body, next to verify-email and reset-password for the tokens that
\* are outstanding and to the Firebase client's profile update.
NextHandlers ==
  \/ /\ nreq < MaxReq
     /\ \E route \in {"profile", "change-password", "account",
                      "admin/users/role"}, user \in Callers :
          AuthenticatedRequest(route, Client, user)
  \/ RequireEmailVerification
  \/ RequireAdmin
  \/ SensitiveOperationLimiter
  \/ GetProfile
  \/ \E firstName \in {"undefined", "", "Bob"}, role \in {"undefined", "admin"},
        storeOk \in BOOLEAN :
       UpdateProfile([NoBody EXCEPT !.firstName = firstName, !.role = role],
                     storeOk)
  \/ \E password \in {"", "seven77", "Passw0rd!"},
        newPassword \in {"seven77", "N3wPassw0rd"}, storeOk \in BOOLEAN :
       ChangePassword([NoBody EXCEPT !.password = password,
                                     !.newPassword = newPassword,
                                     !.role = "admin"], storeOk)
  \/ \E password \in {"", "seven77", "Passw0rd!"},
        confirmation \in {"DELETE", "delete"}, storeOk \in BOOLEAN :
       DeleteAccount([NoBody EXCEPT !.password = password,
                                    !.confirmation = confirmation], storeOk)
  \/ \E userId \in {"a@x", "b@x", "c@x"}, role \in {"admin", "premium", "root"},
        storeOk \in BOOLEAN :
       UpdateUserRole([NoBody EXCEPT !.userId = userId, !.role = role],
                      storeOk)
  \/ /\ nreq < MaxReq
     /\ \E r \in Slots : FreeSlot(r) /\ VerifyEmailFind(r, IssuedToken, TRUE)
  \/ \E r \in Slots : VerifyEmailSave(r, TRUE)
  \/ /\ nreq < MaxReq
     /\ \E r \in Slots :
          FreeSlot(r)
            /\ ResetPasswordFind(r, Client, IssuedToken, "N3wPassw0rd", TRUE)
  \/ \E r \in Slots : ResetPasswordSave(r)
  \/ /\ nreq < MaxReq
     /\ \E profileData \in {[displayName |-> "Bob"],
                            [displayName |-> "Bob", role |-> "admin"]},
           storeOk \in BOOLEAN :
          ClientUpdateProfile("a@x", profileData, storeOk)

SpecHandlers == InitAccounts /\ [][NextHandlers]_vars

\* resend-verification for a@x, which holds a verification token issued
\* earlier, and verify-email with the earlier and with the new token.
NextResend ==
  \/ /\ nreq < MaxReq
     /\ \E r \in Slots, storeOk \in BOOLEAN :
          FreeSlot(r) /\ ResendVerificationFind(r, Client, "A@x", storeOk)
  \/ \E r \in Slots, mailOk \in BOOLEAN : ResendVerificationSave(r, mailOk)
  \/ /\ nreq < MaxReq
     /\ \E r \in Slots, token \in {IssuedToken} \cup Tokens,
           storeOk \in BOOLEAN :
          FreeSlot(r) /\ VerifyEmailFind(r, token, storeOk)
  \/ \E r \in Slots, mailOk \in BOOLEAN : VerifyEmailSave(r, mailOk)
  \/ Advance

SpecResend == InitAccounts /\ [][NextResend]_vars

\* The browser client of a@x: pages are loaded with each content of
\* localStorage, requests are made to routes behind authenticateToken and
\* the refresh of an expired session is attempted; the account may be
\* deleted meanwhile.
NextClient ==
  \/ \E token \in {"", "jwt:a@x", "expired:a@x", "garbage"},
        refreshToken \in {"", "refresh:a@x", "revoked"} :
       Construct(token, refreshToken, "")
  \/ \E endpoint \in {"/user/profile", "/auth/me"}, netOk \in BOOLEAN :
       MakeRequest(endpoint, netOk, fetchProtected(api.token))
  \/ \E netOk \in BOOLEAN :
       \* the auth router is asked at the path refreshAccessToken posts to
       RefreshAccessToken(netOk,
                          refreshTokenRoute("/auth/refresh", api.refreshToken))
  \/ ClientDeleteAccount("a@x", "none")

SpecClient == InitAccounts /\ [][NextClient]_vars

\* The verification endpoints with collaborators that answer, next to
\* registrations whose createUser call never returns.
NextPending ==
  \/ NextVerification
  \/ /\ nreq < MaxReq
     /\ \E r \in Slots, email \in {"A@x", "b@x"} :
          FreeSlot(r) /\ RegisterPending(r, Client, CompleteBody(email))

SpecPending == Init /\ [][NextPending]_vars

\* The client against any server: every answer a server can give to the
\* request, to the refresh and to the retry is drawn, and the page is
\* loaded with each content of localStorage (wet_token is also written, on
\* its own, by the Firebase client's auth-state callback).
NextAnyServer ==
  \/ \E token \in {"", "expired:a@x"}, refreshToken \in {"", "refresh:a@x"},
        user \in {"", "a@x"} :
       Construct(token, refreshToken, user)
  \/ \E endpoint \in {"/user/profile", "/auth/me"}, netOk \in BOOLEAN,
        data \in {Reject(401, "Token expired", ""),
                  Reject(401, "Invalid token", ""), Accept("")} :
       MakeRequest(endpoint, netOk, data)
  \/ \E netOk \in BOOLEAN,
        response \in
          {[json |-> FALSE, success |-> FALSE, token |-> "",
            refreshToken |-> ""],
           [json |-> TRUE, success |-> FALSE, token |-> "",
            refreshToken |-> ""],
           [json |-> TRUE, success |-> TRUE, token |-> "jwt:a@x",
            refreshToken |-> "rotated:a@x"],
           [json |-> TRUE, success |-> TRUE, token |-> "expired:a@x",
            refreshToken |-> "rotated:a@x"],
           [json |-> TRUE, success |-> TRUE, token |-> "jwt:a@x",
            refreshToken |-> ""]} :
       RefreshAccessToken(netOk, response)
  \/ \E netOk \in BOOLEAN,
        data \in {Reject(401, "Token expired", ""),
                  Reject(401, "Invalid token", ""), Accept("")} :
       RetryRequest(netOk, data)

SpecAnyServer == InitAccounts /\ [][NextAnyServer]_vars

\* The Firebase client while users sign in and out: the provider runs the
\* callback at each change and settles each token request at any time.
NextFirebase ==
  \/ /\ fb.changes < MaxReq + 1
     /\ \E user \in {""} \cup LowerEmails : AuthStateChanged(user)
  \/ \E user \in LowerEmails, resolved \in BOOLEAN :
       GetIdTokenSettles(user, resolved)

SpecFirebase == InitAccounts /\ [][NextFirebase]_vars

(* ----------------------------- properties ----------------------------- *)
\* A request arrived in this step (every arrival counts one request).
Arrival == nreq' = nreq + 1

\* A verify-email request presenting token t arrived in this step: it was
\* either answered at once or suspended at user.save().
VerifyArrival(t) ==
  /\ Arrival
  /\ \/ /\ reqs' = reqs
        /\ last'.op = "verify"
        /\ last'.token = t
     \/ \E r \in Slots : /\ reqs[r].pc = "idle"
                         /\ reqs'[r].pc = "verify"
                         /\ reqs'[r].token = t

\* C1: once a verify-email call presenting a token has succeeded, every
\* verify-email call that arrives later with the same token is refused, and
\* unless the store lookup itself throws the refusal is 400 'Invalid or
\* expired verification token'.
C1_VerificationTokenSingleUse ==
  [][\A t \in verifiedTokens :
       VerifyArrival(t) =>
         /\ reqs' = reqs
         /\ users' = users
         /\ ~last'.success
         /\ last'.stage = "handled" =>
              Visible(last') = Visible(InvalidVerificationToken)]_vars

\* C1 witness: a token that verified earlier has just been refused although
\* 24 hours have not passed since any token was issued.
C1_Witness ==
  /\ last.op = "verify"
  /\ last.token \in verifiedTokens
  /\ Visible(last) = Visible(InvalidVerificationToken)
  /\ now < VerifyTTL

\* The token Register persisted for uid e and that has not expired.
RegisterIssued(e, t) ==
  /\ emailVerification[e].exists
  /\ emailVerification[e].token = t
  /\ emailVerification[e].expiresAt > now

\* C2 (as claimed): a verify-email call presenting the unexpired token that
\* Register persisted for an account succeeds and leaves that account's
\* Profile verified.
C2_RegisterTokenVerifies ==
  \A e \in LowerEmails :
    ( /\ last.op = "verify"
      /\ last.stage = "handled"
      /\ RegisterIssued(e, last.token) )
    => /\ last.success
       /\ userProfiles[e].emailVerified

\* C3: right after a Register call that ran to its response with every
\* store write done, the new Identity exists and its one Profile document
\* has role 'user' and is unverified.
C3_ProfileAfterRegister ==
  (last.op = "register" /\ last.stage = "responded")
    => /\ last.email \in authUsers
       /\ userProfiles[last.email] =
            [exists |-> TRUE, role |-> "user", emailVerified |-> FALSE]

\* C3 witness: a Register call has just run to its response.
C3_Witness ==
  /\ last.op = "register"
  /\ last.stage = "responded"
  /\ last.email \in authUsers
  /\ userProfiles[last.email].exists

\* C4 (as claimed): a Register call with a complete body for a new email
\* whose collaborator calls all succeed answers success = true with
\* data.user.isEmailVerified = false.
C4_RegisterResponse ==
  (last.op = "register" /\ last.stage = "responded" /\ last.mailOk)
    => /\ last.success
       /\ last.status = 201
       /\ last.isEmailVerified = FALSE

\* A login request for account e arrived in this step.
LoginArrival(e) ==
  /\ Arrival
  /\ last'.op = "login"
  /\ last'.email = e

\* C5 (as claimed): after 5 consecutive failed logins for an account, the
\* next login request for it is answered with the account-locked response
\* whatever the rate limiter's counters are.
C5_LockedWhateverTheLimiter ==
  [][\A e \in LowerEmails :
       (LoginArrival(e) /\ failStreak[e] >= 5 /\ last'.stage # "storeError")
         => last'.status = 423]_vars

\* C5 (amended): after 5 consecutive failed logins for an account, the next
\* login request for it that the rate limiter admits is answered with the
\* account-locked response, correct password or not, and changes no account.
C5_LockedWhenAdmitted ==
  [][\A e \in LowerEmails :
       (LoginArrival(e) /\ failStreak[e] >= 5 /\ last'.stage = "handled")
         => /\ last'.status = 423
            /\ ~last'.success
            /\ users' = users]_vars

\* C5 witness: a login with the correct password has just been refused as
\* locked after five failures.
C5_Witness ==
  /\ last.op = "login"
  /\ last.status = 423
  /\ last.email \in LowerEmails
  /\ failStreak[last.email] >= 5
  /\ last.password = users[last.email].password

\* The login limiter counted a request under key k in this step.
LoginCounted(k) ==
  /\ Arrival
  /\ last'.op = "login"
  /\ hits'["login"][k] # hits["login"][k]

\* Calls already counted for key k in the window that is open now.
CallsInWindow(k) ==
  IF hits["login"][k].count > 0 /\ now < hits["login"][k].resetTime
    THEN hits["login"][k].count
    ELSE 0

\* C6: with max = 5 and windowMs = 900000, a call is rejected with the 429
\* response exactly when 5 or more calls with its key were already counted
\* in the open window; the first 5 calls of a window, and any call made once
\* the window has elapsed, are let through to the handler.  The first call
\* of a window opens it for 900000 ms and every further call adds one.
C6_LimiterWindow ==
  [][\A k \in DOMAIN hits["login"] :
       LoginCounted(k) =>
         /\ CallsInWindow(k) < 5 => last'.status # 429
         /\ CallsInWindow(k) >= 5 =>
              Visible(last') = Visible(TooManyAttempts("login"))
         /\ CallsInWindow(k) = 0 =>
              hits'["login"][k] = [count |-> 1, resetTime |-> now + 900000]
         /\ CallsInWindow(k) > 0 =>
              hits'["login"][k] =
                [hits["login"][k] EXCEPT !.count = CallsInWindow(k) + 1]]_vars

\* C6 witness: one address made six calls in the first window (the sixth
\* was rejected, by C6), the window elapsed, and its seventh call has just
\* been let through as the first call of a new window.
C6_Witness ==
  /\ nreq = 7
  /\ now > 0
  /\ last.op = "login"
  /\ last.status # 429
  /\ hits["login"][keyGenerator("ip1", "")] =
       [count |-> 1, resetTime |-> now + 900000]
  /\ hits["login"][keyGenerator("ip2", "")].count = 0

\* C7 (as claimed): the forgot-password response is the one an unknown email
\* gets, whether or not the email has an account.
C7_ForgotPasswordIdentical ==
  (last.op = "forgot" /\ last.stage = "handled")
    => Visible(last) = Visible(forgotPasswordResponse(NoUser, last.mailOk))

\* The handler's response to the same request had the email no account.
ResponseForUnknownEmail(resp) ==
  CASE resp.op = "login" -> loginResponse(NoUser, resp.password)
    [] resp.op = "resend" -> resendLookupResponse(NoUser)
    [] resp.op = "forgot" -> forgotPasswordResponse(NoUser, resp.mailOk)

\* C8 (as claimed): every error response of login, resend-verification and
\* forgot-password is the response the same request gets for an email
\* without an account.
C8_ErrorsHideExistence ==
  ( /\ last.op \in {"login", "resend", "forgot"}
    /\ last.stage = "handled"
    /\ ~last.success )
    => Visible(last) = Visible(ResponseForUnknownEmail(last))

\* C8 (amended): a login refused for a wrong password on an account that is
\* not locked gets the response a login for an unknown email gets.
C8_InvalidCredentialsHideExistence ==
  ( /\ last.op = "login"
    /\ last.stage = "handled"
    /\ ~last.success
    /\ last.status # 423 )
    => Visible(last) = Visible(ResponseForUnknownEmail(last))

\* C8 witness: a login with a wrong password for an existing account has
\* just been refused.
C8_Witness ==
  /\ last.op = "login"
  /\ last.stage = "handled"
  /\ last.status = 401
  /\ users[last.email].exists
  /\ last.password # users[last.email].password

\* A reset-password request with token t and password p arrived in this
\* step: it was either answered at once or suspended at user.save().
ResetArrival(t, p) ==
  /\ Arrival
  /\ \/ /\ reqs' = reqs
        /\ last'.op = "reset"
        /\ last'.token = t
        /\ last'.password = p
     \/ \E r \in Slots : /\ reqs[r].pc = "idle"
                         /\ reqs'[r].pc = "reset"
                         /\ reqs'[r].token = t
                         /\ reqs'[r].password = p

\* C9: a reset-password request that the limiter admits and whose password
\* is shorter than 8 characters is answered 400 'Password must be at least 8
\* characters long' and changes no account (token and password stay); and a
\* request with a password of 8 or more characters is refused as 'Invalid or
\* expired reset token' only if no account holds that token unexpired.
C9_ShortPasswordKeepsToken ==
  [][\A t \in Tokens, p \in Passwords \ {""} :
       ResetArrival(t, p) =>
         /\ (Len(p) < 8 /\ last'.stage # "limited") =>
              /\ reqs' = reqs
              /\ users' = users
              /\ Visible(last') = Visible(PasswordTooShort)
         /\ (Len(p) >= 8 /\ reqs' = reqs /\ last'.stage = "handled") =>
              FoundByResetToken(t) = {}]_vars

\* C9 witness: a reset with a token that was earlier refused for a short
\* password has just succeeded.
C9_Witness ==
  /\ last.op = "reset"
  /\ last.success
  /\ last.token \in shortRejected
  /\ Len(last.password) >= 8
  /\ users[last.email].password = last.password

\* C10 (as claimed): at most one reset-password call succeeds per token.
C10_ResetTokenConsumedOnce ==
  \A t \in Tokens : resetUses[t] <= 1

\* A reset-password call that found account e by its token completes in
\* this step (user.save() and the 200 response).
ResetCompletes(r, e) ==
  /\ reqs[r].pc = "reset"
  /\ reqs[r].user = e
  /\ reqs'[r].pc = "idle"

VerificationTokenExpired(t) ==
  \E e \in LowerEmails :
    \/ /\ users[e].exists
       /\ users[e].emailVerificationToken = t
       /\ users[e].emailVerificationExpires <= now
    \/ /\ emailVerification[e].exists
       /\ emailVerification[e].token = t
       /\ emailVerification[e].expiresAt <= now

RoleSet(v) == {v.items[i] : i \in 1..Len(v.items)}

\* The request went through the gate: next() was called and nothing sent.
Passed == req.nexts = 1 /\ req.res = NoRes

\* The gate answered the request and did not call next().
Refused(res) == req.nexts = 0 /\ req.res = res

\* C13: requireRole(S) applied to a request that carries a user calls
\* next() if the user's role is in S and otherwise answers 403
\* 'Insufficient permissions'; requireAdmin lets through the role 'admin'
\* alone, and a gate for 'premium' alone refuses 'admin'.
C13_RoleMembership ==
  (req.stage = "done" /\ ~req.user.isNull /\ ~req.user.role.array) =>
    LET role == req.user.role.items[1] IN
    /\ req.route = "requireRole" =>
         /\ role \in RoleSet(req.roles) => Passed
         /\ role \notin RoleSet(req.roles) =>
              Refused(InsufficientPermissions)
    /\ req.route = "requireAdmin" =>
         /\ role = "admin" => Passed
         /\ role # "admin" => Refused(InsufficientPermissions)

\* C13 witness: a gate for the role 'premium' alone has just refused a user
\* whose role is 'admin'.
C13_Witness ==
  /\ req.stage = "done"
  /\ req.route = "requireRole"
  /\ req.roles = Arr(<<"premium">>)
  /\ req.user.role = Str("admin")
  /\ Refused(InsufficientPermissions)

\* requirePremium is applied in this step to a request that carries a user.
PremiumGateRuns ==
  /\ req.stage = "gate"
  /\ ~req.user.isNull
  /\ req'.stage = "done"
  /\ req'.route = "requirePremium"

\* C14 (as claimed): requirePremium calls next() exactly when the
\* subscription type is 'premium' or 'enterprise' and the end date is null
\* or in the future.
C14_PremiumNullEndDatePasses ==
  [][PremiumGateRuns =>
       LET subscription == req.user.subscription IN
       (req'.nexts = 1 /\ req'.res = NoRes)
         <=> /\ subscription.present
             /\ subscription.type \in {"premium", "enterprise"}
             /\ \/ subscription.endDate = NullDate
                \/ subscription.endDate > now]_vars

\* authenticateToken runs on the request in this step.
AuthenticateTokenRuns ==
  /\ req.stage = "authenticateToken"
  /\ req'.stage # "authenticateToken"

\* C15 (as claimed): when the token verifies and no Profile document exists
\* for the decoded uid, authenticateToken answers 401 'User not found' and
\* does not call next(), unless the lookup itself threw.
C15_MissingProfileRejected ==
  [][( /\ AuthenticateTokenRuns
       /\ req'.decoded # ""
       /\ ~userProfiles[req'.decoded].exists
       /\ req'.res # AuthenticationFailed )
       => /\ req'.res = Reject(401, "User not found", "")
          /\ req'.nexts = 0]_vars

\* C16 (as claimed): a request whose Authorization header is absent or not
\* 'Bearer <token>', or whose token fails verification for any reason, is
\* answered 401.
C16_UnverifiedIs401 ==
  [][(AuthenticateTokenRuns /\ req'.decoded = "")
       => req'.res.status = 401]_vars

\* C16 (amended): authenticateToken answers, without calling next(), 401
\* 'Access token required' when the header is absent or not 'Bearer
\* <token>', 401 'Token expired' when verification throws
\* auth/id-token-expired, 401 'Invalid token' when it throws
\* auth/argument-error or auth/invalid-id-token, and 500 'Authentication
\* failed' when it throws anything else.
C16_UnverifiedIs401Or500 ==
  [][(AuthenticateTokenRuns /\ req'.decoded = "")
       => /\ req'.nexts = 0
          /\ ~req'.handled
          /\ extractToken(req.authorization) = "" =>
               req'.res = Reject(401, "Access token required", "")
          /\ req'.code = "auth/id-token-expired" =>
               req'.res = Reject(401, "Token expired", "")
          /\ req'.code \in {"auth/argument-error", "auth/invalid-id-token"} =>
               req'.res = Reject(401, "Invalid token", "")
          /\ ( /\ extractToken(req.authorization) # ""
               /\ req'.code \notin {"auth/id-token-expired",
                     "auth/argument-error", "auth/invalid-id-token"} ) =>
               req'.res = Reject(500, "Authentication failed", "")]_vars

\* C16 witness: a request with a malformed bearer token has just been
\* answered 401 'Invalid token'.
C16_Witness ==
  /\ req.stage = "done"
  /\ req.authorization = <<"Bearer", "garbage">>
  /\ req.code = "auth/argument-error"
  /\ req.res = Reject(401, "Invalid token", "")
  /\ ~req.handled

\* C17: the handler of a route that mounts authenticateToken is entered
\* only by a request whose bearer token the identity provider verified,
\* with req.uid and req.user set to the identity decoded from that token.
C17_HandlerOnlyWhenVerified ==
  ( /\ req.stage = "handler" \/ req.handled
    /\ req.route \in {"profile", "change-password", "account", "admin/users"} )
    => /\ req.decoded # ""
       /\ req.decoded = verifyIdToken(extractToken(req.authorization),
                                      TRUE).uid
       /\ req.uid = req.decoded
       /\ ~req.user.isNull
       /\ req.user.uid = req.decoded
       /\ req.res = NoRes

\* C17 witness: the handler of GET /profile has run for a request that
\* carried a valid token of a@x.
C17_Witness ==
  /\ req.handled
  /\ req.route = "profile"
  /\ req.authorization = <<"Bearer", "jwt:a@x">>
  /\ req.uid = "a@x"
  /\ req.user.uid = "a@x"

\* optionalAuth runs on the request in this step.
OptionalAuthRuns ==
  /\ req.stage = "optionalAuth"
  /\ req'.stage # "optionalAuth"

\* C18: optionalAuth sends no response and calls next() once, whatever the
\* header is; unless the token verified and the user was looked up, it sets
\* req.user = null and req.uid = null.
C18_OptionalAuthNeverRejects ==
  [][OptionalAuthRuns =>
       /\ req'.res = NoRes
       /\ req'.nexts = 1
       /\ req'.stage = "handler"
       /\ req'.decoded = "" => (req'.user = NullUser /\ req'.uid = "")
       /\ req'.user.isNull => (req'.user = NullUser /\ req'.uid = "")
       /\ ~req'.user.isNull =>
            (req'.uid = req'.decoded /\ req'.user.uid = req'.decoded)]_vars

\* C18 witness: a request with a malformed token went through optionalAuth
\* without an identity and its handler has run.
C18_Witness ==
  /\ req.route = "public"
  /\ req.handled
  /\ req.authorization = <<"Bearer", "garbage">>
  /\ req.user = NullUser
  /\ req.uid = ""
  /\ req.res = NoRes

\* requireEmailVerification runs in this step on the request of an
\* authenticated account.
VerificationGateRuns ==
  /\ req.stage = "requireEmailVerification"
  /\ req'.stage # "requireEmailVerification"
  /\ req.uid # ""

\* C19 (as claimed): requireEmailVerification refuses an account's request
\* with 403 and code EMAIL_NOT_VERIFIED while verify-email has not
\* succeeded for the account, and lets the request through when
\* verify-email had succeeded for the account before the request arrived.
C19_VerifiedAccountPassesGate ==
  [][VerificationGateRuns =>
       /\ ~users[req.uid].isEmailVerified =>
            (req'.res = EmailNotVerified /\ req'.nexts = 0)
       /\ req.wasVerified =>
            (req'.res = NoRes /\ req'.nexts = 1)]_vars

\* A limiter counts the request in this step.
LimiterRuns ==
  /\ req.stage = "limiter"
  /\ req'.stage # "limiter"

\* C20 (as claimed): on change-password and delete-account the limiter
\* has counted the request by the time its token is examined.
C20_LimiterBeforeToken ==
  [][( /\ AuthenticateTokenRuns
       /\ req.route \in {"change-password", "account"} )
       => req.counted]_vars

\* C20 (amended): on change-password and delete-account the limiter runs
\* after token verification and, on delete-account, after the
\* email-verification gate: it counts a request only once the token has
\* verified and the user is attached (and, on delete-account, is verified),
\* under the key of the address and the uid; a request refused by
\* authenticateToken or by the gate leaves every count as it is.
C20_TokenBeforeLimiter ==
  [][/\ LimiterRuns =>
          /\ req.decoded # ""
          /\ req.uid = req.decoded
          /\ req.route = "account" => req.user.emailVerified
          /\ hits'[req.route][keyGenerator(req.ip, req.uid)].count >= 1
          /\ \A ep \in Endpoints :
               \A k \in DOMAIN hits[ep] :
                 <<ep, k>> # <<req.route, keyGenerator(req.ip, req.uid)>>
                   => hits'[ep][k] = hits[ep][k]
     /\ (AuthenticateTokenRuns \/ VerificationGateRuns) =>
          (hits' = hits /\ ~req'.counted)]_vars

\* C20 witness: a change-password request with a valid token has been
\* counted, after its token verified, under the key of its address and uid.
C20_Witness ==
  /\ req.route = "change-password"
  /\ req.counted
  /\ req.decoded = "a@x"
  /\ hits["change-password"][keyGenerator(Client, "a@x")].count = 1
  /\ hits["change-password"][keyGenerator(Client, "")].count = 0

\* A request to the rate-limited auth route ep arrived in this step: it was
\* answered at once, or its handler suspended at a save.
EndpointArrival(ep) ==
  /\ Arrival
  /\ \/ reqs' = reqs /\ last'.op = ep
     \/ \E r \in Slots : reqs[r].pc = "idle" /\ reqs'[r].pc = ep

\* The requests the key's current window has counted so far.
CountInWindow(ep, k) ==
  IF hits[ep][k].count = 0 \/ now >= hits[ep][k].resetTime
    THEN 0
    ELSE hits[ep][k].count

\* C21: on register, login, resend-verification, forgot-password and
\* reset-password every request consumes one unit of the endpoint's budget
\* for its key whatever its outcome (rejected by the limiter, validation
\* failure, store failure, not found, success): the key's count in the
\* current window goes up by exactly one, no other count changes, no step
\* that is not an arrival changes a count, and while the first window
\* lasts the counts of the client's key add up to the requests received.
C21_EveryRequestCounted ==
  [][/\ \A ep \in AuthEndpoints :
          EndpointArrival(ep) =>
            /\ hits'[ep][keyGenerator(Client, "")].count
                 = CountInWindow(ep, keyGenerator(Client, "")) + 1
            /\ \A other \in Endpoints \ {ep} : hits'[other] = hits[other]
            /\ \A k \in DOMAIN hits[ep] \ {keyGenerator(Client, "")} :
                 hits'[ep][k] = hits[ep][k]
     /\ ~Arrival => hits' = hits
     /\ ticks' = 0 =>
          nreq' = hits'["register"][keyGenerator(Client, "")].count
                    + hits'["login"][keyGenerator(Client, "")].count
                    + hits'["resend"][keyGenerator(Client, "")].count
                    + hits'["forgot"][keyGenerator(Client, "")].count
                    + hits'["reset"][keyGenerator(Client, "")].count]_vars

\* The fourth resend-verification request of a window was rejected by the
\* limiter and counted all the same, after a request that succeeded.
C21_Witness ==
  /\ last.op = "resend"
  /\ last.status = 429
  /\ hits["resend"][keyGenerator(Client, "")].count = ResendMax + 1
  /\ users["a@x"].emailVerificationToken # NoToken

\* C22: from one client address, attempts that carry a known identity id
\* (change-password, after authenticateToken) and attempts that carry none
\* (login) are counted under different keys: the limiter of the protected
\* route counts under a key that holds the identity id and touches no key
\* without one nor any login count, a login is counted under the key
\* without an id and touches no key that holds one, and each is rejected
\* exactly when its own key's count has used up its own budget, however
\* far the other has been exhausted.
C22_SeparateKeys ==
  [][/\ LimiterRuns =>
          /\ req.uid # ""
          /\ \A k \in DOMAIN hits[req.route] :
               k[2] = "" => hits'[req.route][k] = hits[req.route][k]
          /\ hits'["login"] = hits["login"]
          /\ (req'.res.status = 429) <=>
               \E k \in DOMAIN hits[req.route] :
                 /\ k = <<req.ip, req.uid>>
                 /\ CountInWindow(req.route, k) >= MaxOf(req.route)
     /\ (EndpointArrival("login") /\ req' = req) =>
          /\ \A ep \in Endpoints : \A k \in DOMAIN hits[ep] :
               k[2] # "" => hits'[ep][k] = hits[ep][k]
          /\ (last'.status = 429) <=>
               CountInWindow("login", <<Client, "">>) >= LoginMax]_vars

\* The login budget of the address is exhausted (the sixth login was
\* answered 429) and the first change-password request made after that has
\* passed its limiter.
C22_Witness ==
  /\ hits["login"][<<Client, "">>].count = LoginMax + 1
  /\ last.op = "login"
  /\ last.status = 429
  /\ req.route = "change-password"
  /\ req.stage = "handler"
  /\ req.counted
  /\ \E k \in DOMAIN hits["change-password"] :
       k[2] = "a@x" /\ hits["change-password"][k].count = 1

\* C23: a register request whose email equals an existing Identity's email
\* up to letter case creates no Identity, no Profile and no verification
\* token, and it is answered 409 'User with this email already exists'
\* unless the limiter (429), the required-fields check (400) or a failing
\* identity lookup (500) answered it first.
C23_CaseInsensitiveConflict ==
  [][\A email \in {"A@x", "a@x", "b@x"} :
       ( /\ Arrival
         /\ last'.op = "register"
         /\ last'.input = email
         /\ toLowerCase(email) \in authUsers )
       => /\ authUsers' = authUsers
          /\ userProfiles' = userProfiles
          /\ emailVerification' = emailVerification
          /\ nextToken' = nextToken
          /\ last'.stage \notin {"limited", "validation", "storeError"}
               => /\ last'.status = 409
                  /\ last'.message = "User with this email already exists"]_vars

\* The Identity a@x exists and a registration sent as 'A@x' was answered
\* 409.
C23_Witness ==
  /\ "a@x" \in authUsers
  /\ last.op = "register"
  /\ last.input = "A@x"
  /\ last.status = 409

\* C24: when the verification email fails to send during a registration
\* that has created the Identity, the Profile and the verification token,
\* nothing is rolled back: after the request the Identity, the Profile and
\* the token document exist, the account is unverified, and the caller gets
\* the response it gets when the send succeeds; and no step of register,
\* verify-email or resend-verification removes an Identity, a Profile or a
\* token document.
C24_MailFailureKeepsRegistration ==
  [][/\ \A e \in LowerEmails :
          ( /\ Arrival
            /\ last'.op = "register"
            /\ last'.email = e
            /\ ~last'.mailOk
            /\ emailVerification'[e] # emailVerification[e] )
          => /\ e \in authUsers'
             /\ userProfiles'[e].exists
             /\ ~userProfiles'[e].emailVerified
             /\ emailVerification'[e].exists
             /\ emailVerification'[e].token = last'.token
             /\ last'.token # NoToken
             /\ Visible(last') =
                  Visible(afterVerificationEmail(
                            registerResponse(createUserReturn(e, "", "")),
                            TRUE))
     /\ \A e \in LowerEmails :
          /\ e \in authUsers => e \in authUsers'
          /\ userProfiles[e].exists => userProfiles'[e].exists
          /\ emailVerification[e].exists => emailVerification'[e].exists]_vars

\* A registration whose verification email failed to send has been
\* answered, and its Identity, Profile and token are in place.
C24_Witness ==
  /\ last.op = "register"
  /\ last.stage = "responded"
  /\ ~last.mailOk
  /\ last.email \in authUsers
  /\ userProfiles[last.email].exists
  /\ ~userProfiles[last.email].emailVerified
  /\ emailVerification[last.email].token = last.token

\* The Identity e and the Profile e exist together or not at all (Profiles
\* are keyed by the Identity's id, so there is at most one per Identity).
Paired(e) == (e \in authUsers) <=> userProfiles[e].exists

RoleChanged(e) ==
  \/ /\ userProfiles[e].exists
     /\ userProfiles'[e].exists
     /\ userProfiles'[e].role # userProfiles[e].role
  \/ /\ users[e].exists
     /\ users'[e].exists
     /\ users'[e].role # users[e].role

\* C27 (as claimed): a role changes only in a step in which the handler of
\* PUT /admin/users/:userId/role answers 200 to a caller whose role is
\* 'admin', and then it is the role of the account named in the path that
\* becomes the role sent; PUT /profile, change-password, verify-email,
\* reset-password and every other operation leave every role as it is,
\* whatever the body holds.
C27_RoleChangesOnlyByAdmin ==
  [][\A e \in LowerEmails :
       RoleChanged(e) =>
         /\ req.route = "admin/users/role"
         /\ req.stage = "handler"
         /\ includes(req.user.role.items, "admin")
         /\ req'.res.status = 200
         /\ req'.body.userId = e
         /\ users'[e].role = req'.body.role
         /\ userProfiles' = userProfiles]_vars

\* The last answer was a successful resend-verification for account e.
ResendSucceeded(e) ==
  /\ last.op = "resend"
  /\ last.status = 200
  /\ last.email = e

\* C28: once resend-verification has succeeded for an unverified account,
\* a verify-email call that arrives with the account's earlier token is
\* refused (400 'Invalid or expired verification token', or 500 when the
\* lookup throws) and changes nothing, while a call that arrives with the
\* new token before it expires finds the account.
C28_ResendSupersedesToken ==
  [][/\ ( /\ VerifyArrival(IssuedToken)
          /\ \/ ResendSucceeded("a@x")
             \/ users["a@x"].emailVerificationToken # IssuedToken )
        => /\ reqs' = reqs
           /\ users' = users
           /\ last'.op = "verify"
           /\ last'.token = IssuedToken
           /\ \/ Visible(last') = Visible(InvalidVerificationToken)
              \/ last'.status = 500 /\ last'.stage = "storeError"
     /\ \A t \in Tokens :
          ( /\ VerifyArrival(t)
            /\ \/ ResendSucceeded("a@x") /\ last.token = t
               \/ users["a@x"].emailVerificationToken = t
            /\ ~users["a@x"].isEmailVerified
            /\ users["a@x"].emailVerificationExpires > now )
          => \/ \E r \in Slots : /\ reqs'[r].pc = "verify"
                                 /\ reqs'[r].user = "a@x"
                                 /\ reqs'[r].token = t
             \/ last'.status = 500 /\ last'.stage = "storeError"]_vars

\* After a resend-verification that succeeded and stored a new token, a
\* verify-email call with the earlier token was refused; the account is
\* still unverified and the new token still stored.
C28_Witness ==
  /\ last.op = "verify"
  /\ last.token = IssuedToken
  /\ Visible(last) = Visible(InvalidVerificationToken)
  /\ users["a@x"].emailVerificationToken \in Tokens
  /\ ~users["a@x"].isEmailVerified
  /\ now < VerifyTTL

\* C29: a mail-transport failure changes the caller's response only for
\* forgot-password: a verify-email or resend-verification call whose state
\* change was saved is answered with its success response although the
\* send failed, and a forgot-password call that issued a token and could
\* not send it is answered 500.
C29_MailFailureSurfacedOnlyByForgot ==
  /\ ( /\ last.op = "verify"
       /\ last.stage = "handled"
       /\ ~last.mailOk )
     => Visible(last) =
          Visible(Response("verify", 200, TRUE, "Email verified successfully"))
  /\ ( /\ last.op = "resend"
       /\ last.stage = "handled"
       /\ ~last.mailOk )
     => Visible(last) =
          Visible(Response("resend", 200, TRUE,
                           "Verification email sent successfully"))
  /\ ( /\ last.op = "forgot"
       /\ last.stage = "handled"
       /\ last.token # NoToken
       /\ ~last.mailOk )
     => Visible(last) # Visible(GenericResetSent)

\* C30: when makeRequest was answered 401 'Token expired' while the client
\* held a refresh token the server accepts and the refresh request was not
\* lost in the network, the call ends with the new access and refresh
\* tokens stored, after a refresh request to the server's /refresh-token
\* route and a retry of the original request carrying the new access token.
C30_RefreshEndToEnd ==
  ( /\ api.pc = "idle"
    /\ api.expired
    /\ validateRefreshToken(api.held).ok
    /\ api.net )
  => /\ api.path = "/auth/refresh-token"
     /\ api.token = "jwt:a@x"
     /\ api.refreshToken = "rotated:a@x"
     /\ api.retried
     /\ api.sent = <<"Bearer", "jwt:a@x">>

\* C31: every response sent by an auth endpoint, a user endpoint or a
\* middleware carries a boolean success and a string message.
C31_ResponsesCarrySuccessAndMessage ==
  /\ ( req.stage = "done" /\ req.res.status # 0 )
     => /\ req.res.success \in BOOLEAN
        /\ req.res.message # ""
  /\ last.op # "none"
     => /\ last.success \in BOOLEAN
        /\ last.message # ""

\* C32: every 403 an access-control gate answers carries a code, and the
\* code is the one fixed for that gate.
C32_GateRefusalsCarryCode ==
  ( /\ req.stage = "done"
    /\ req.route \in {"requireRole", "requireAdmin", "requirePremium",
                      "requireEmailVerification"}
    /\ req.res.status = 403 )
  => /\ req.res.code # ""
     /\ req.route = "requireEmailVerification"
          => req.res.code = "EMAIL_NOT_VERIFIED"
     /\ req.route = "requirePremium" => req.res.code = "PREMIUM_REQUIRED"

\* A step that answers the request suspended in slot r.
Answered(r) == NextPending /\ reqs'[r].pc = "idle"

\* C33: a request that was received and not yet answered can still be
\* answered, also when the call it waits for never returns: a continuation
\* or a timeout that sends its response is pending.
C33_EveryRequestAnswered ==
  \A r \in Slots : reqs[r].pc # "idle" => ENABLED Answered(r)

\* C34: once the verify-email and resend-verification calls for an account
\* have all completed, the account is not verified while a verification
\* token that still validates is stored for it.
C34_NoTokenForVerifiedAccount ==
  ( /\ \A r \in Slots : reqs[r].pc = "idle"
    /\ users["a@x"].isEmailVerified )
  => ~ /\ users["a@x"].emailVerificationToken # NoToken
       /\ users["a@x"].emailVerificationExpires > now

\* C35: a makeRequest call sends its request at most twice and posts to the
\* refresh endpoint at most once, and the retry ends the call: its answer,
\* 'Token expired' included, is returned (or the network error thrown)
\* with no further refresh.
C35_AtMostOneRetry ==
  [][/\ api'.sends <= 2
     /\ api'.refreshes <= 1
     /\ ( api.pc = "retry" /\ api' # api )
        => /\ api'.pc = "idle"
           /\ api'.sends = 2
           /\ api'.token = api.token
           /\ api'.refreshToken = api.refreshToken
           /\ api'.returned \in {"data", "threw"}]_vars

\* A call whose retry was again answered 'Token expired' has returned
\* that answer after two sends and one refresh.
C35_Witness ==
  /\ api.pc = "idle"
  /\ api.retried
  /\ api.sends = 2
  /\ api.refreshes = 1
  /\ api.returned = "data"
  /\ api.data = Reject(401, "Token expired", "")

\* C36: when makeRequest has returned null after a failed refresh the
\* client holds no access token, no refresh token and no stored user, and
\* at every moment token and refreshToken are both set or both null.
C36_NullReturnAndPairedTokens ==
  /\ ( api.pc = "idle" /\ api.returned = "null" )
     => /\ api.token = ""
        /\ api.refreshToken = ""
        /\ api.wet_user = ""
  /\ api.token = "" <=> api.refreshToken = ""

\* C36 (amended): when makeRequest returns null after a failed refresh the
\* client holds no access token, no refresh token and no stored user; and
\* after construction token and refreshToken change only together, both
\* cleared or both set from the answer to a refresh.  (A client constructed
\* from a localStorage that holds only one of the two items holds one
\* without the other until then.)
C36_NullReturnClearsAndTokensChangeTogether ==
  [][/\ ( api'.pc = "idle" /\ api'.returned = "null" )
        => /\ api'.token = ""
           /\ api'.refreshToken = ""
           /\ api'.wet_user = ""
     /\ ( \/ api'.token # api.token
          \/ api'.refreshToken # api.refreshToken )
        => \/ api.pc = "idle" /\ api'.pc = "idle" /\ api'.returned = "none"
           \/ api'.token = "" /\ api'.refreshToken = ""
           \/ api.pc = "refreshAccessToken" /\ api'.pc = "retry"]_vars

\* makeRequest returned null after the server refused the refresh token
\* the client held: tokens and stored user are gone, the page redirected.
C36_Witness ==
  /\ api.pc = "idle"
  /\ api.returned = "null"
  /\ api.expired
  /\ api.held # ""
  /\ api.refreshes = 1
  /\ api.token = ""
  /\ api.refreshToken = ""
  /\ api.wet_user = ""
  /\ api.location = "/index.html"

\* DELETE /account is answered in this step.
AccountAnswered ==
  /\ req.route = "account"
  /\ req.stage # "done"
  /\ req'.stage = "done"

C38_SignedOutHoldsNoToken ==
  fb.currentUser = "" => fb.authToken = "" /\ fb.wet_token = ""

====
